---- MODULE Spec2Model ----
(***************************************************************************)
(* Verification model of go-datastructures: the unbounded blocking Queue   *)
(* (v2/queue), the immutable AVL tree (tree/avl) and the indexed skip list *)
(* (slice/skip).  Each subsystem has its own specification over the shared *)
(* variable list; the variables of the other subsystems stay at their      *)
(* initial values.                                                         *)
(***************************************************************************)
EXTENDS Integers, Sequences, FiniteSets, TLC

\* ------------------------------------------------------------------------
\* Bounds of the exploration
\* ------------------------------------------------------------------------
MaxItems == 2     \* items put in a run
MaxPutLen == 2    \* items of one Put
MaxPolls == 2     \* Get/Poll calls in a run
MaxGetNum == 1    \* the number argument of Get/Poll
MaxWorkers == 2   \* goroutines of one ExecuteInParallel
MaxExec == 1      \* ExecuteInParallel calls in a run
MaxPri == 3       \* priorities of the priority queue's items
MaxPqItems == 4   \* items put into the priority queue in a run
MaxPqPutLen == 2  \* items of one PriorityQueue.Put
MaxPqGets == 3    \* PriorityQueue.Get calls in a run
MaxPqNum == 2     \* the number argument of PriorityQueue.Get
MaxPqDispose == 1 \* PriorityQueue.Dispose calls in a run

\* goroutines calling Put, and goroutines calling Get/Poll
Producers == {1, 2}
Consumers == {3, 4}
Admin == 0
NoLock == -1

VARIABLES
    qItems, qWaiters, qLock, qDisposed,   \* Queue fields
    ready, response,                      \* sema.ready (buffered count), sema.response, by sema id
    ppc, pcur, pres,                      \* Put: position, sema being handed off, last return value
    cpc, csema, cnum, ctimed, cres, cpath,\* Poll: position, its sema, number, timeout > 0, last result, path taken
    putLog, gotLog, tookLog, dispLog,     \* history: accepted Put arguments, items returned per caller
    nPolls,
    ares,                                 \* last result of Peek or TakeUntil
    exec,                                 \* ExecuteInParallel: position, locals, items given to fn
    avlHeap, avlSnaps, avlPanic,          \* AVL: nodes by address, the Immutables returned so far, a panic
    skNodes, skLists, skLog, skPanic,     \* skip: nodes by address, the SkipLists, the calls made, a panic
    pqItems, pqWaiters, pqLock, pqDisposeLock, pqDisposed, pqAllowDuplicates, \* PriorityQueue fields
    pqReady, pqResponse,                  \* PriorityQueue: each sema's channel and WaitGroup counter
    pqProc,                               \* PriorityQueue: each caller's position, locals and last result
    pqCalls,                              \* PriorityQueue: items put, Get and Dispose calls made
    skIter                                \* skip list: the iterator handed out, what it yielded

qvars == <<qItems, qWaiters, qLock, qDisposed, ready, response, ppc, pcur, pres,
           cpc, csema, cnum, ctimed, cres, cpath, putLog, gotLog, tookLog, dispLog,
           nPolls, ares, exec>>

avars == <<avlHeap, avlSnaps, avlPanic>>

svars == <<skNodes, skLists, skLog, skPanic>>

pvars == <<pqItems, pqWaiters, pqLock, pqDisposeLock, pqDisposed, pqAllowDuplicates,
           pqReady, pqResponse, pqProc, pqCalls>>

ivars == <<skIter>>

vars == <<qvars, avars, svars, pvars, ivars>>

nonQ == <<avars, svars, pvars, ivars>>
\* what the calls of Put, Get/Poll and Dispose leave alone
nonQCall == <<nonQ, ares, exec>>
nonA == <<qvars, svars, pvars, ivars>>
nonS == <<qvars, avars, pvars, ivars>>
nonP == <<qvars, avars, svars, ivars>>
\* what the calls on an iterator leave alone
nonI == <<qvars, avars, pvars>>

\* ------------------------------------------------------------------------
\* Sequence helpers
\* ------------------------------------------------------------------------
Min(a, b) == IF a < b THEN a ELSE b

Range(s) == {s[i] : i \in 1..Len(s)}

IsPrefix(s, t) == Len(s) <= Len(t) /\ \A i \in 1..Len(s) : s[i] = t[i]

NoDup(s) == \A i, j \in 1..Len(s) : s[i] = s[j] => i = j

RECURSIVE ConcatAll(_, _)
ConcatAll(f, S) ==
    IF S = {} THEN <<>>
    ELSE LET x == CHOOSE y \in S : \A z \in S : y <= z
         IN f[x] \o ConcatAll(f, S \ {x})

\* ------------------------------------------------------------------------
\* tree/avl: nodes live in a heap (a sequence indexed by address, 0 is nil);
\* an Immutable is its root address and its number.  Every operator that
\* can dereference nil carries ok = FALSE out of the call (a Go panic).
\* ------------------------------------------------------------------------
MaxKey == 4       \* keys are 1..MaxKey
MaxInit == 4      \* entries of the bulk Insert that builds the first snapshot
MaxOps == 2       \* Insert/Delete calls after it
MaxBatch == 1     \* entries of one such call
CacheSize == 64   \* len(cache), len(dirs) in delete

Nil == 0
AvlKeys == 1..MaxKey

\* an entry: its key and a tag telling equal-comparing entries apart
NoEntry == [k |-> 0, t |-> 0]
Compare(a, b) == a.k - b.k

normalizeComparison(i) == IF i < 0 THEN 1 ELSE IF i > 0 THEN 0 ELSE -1
intFromBool(b) == IF b THEN 1 ELSE 0
takeOpposite(v) == 1 - v
Abs(x) == IF x < 0 THEN -x ELSE x

\* F applied to the value of v, which is computed once
Let(v, F(_)) == CHOOSE y \in {F(x) : x \in {v}} : TRUE

newNode(e) == [balance |-> 0, children |-> <<Nil, Nil>>, entry |-> e]
Child(h, n, dir) == h[n].children[dir + 1]
SetChild(h, n, dir, v) == [h EXCEPT ![n].children[dir + 1] = v]
SetBalance(h, n, b) == [h EXCEPT ![n].balance = b]
SetEntry(h, n, e) == [h EXCEPT ![n].entry = e]
\* node.copy: a new node with the same fields; its address is Len(h) + 1
CopyNode(h, n) == Append(h, h[n])

Panic(h) == [h |-> h, n |-> Nil, done |-> 0, ok |-> FALSE]

rotate(h, parent, dir) ==
    LET otherDir == takeOpposite(dir)
    IN IF parent = Nil \/ Child(h, parent, otherDir) = Nil THEN Panic(h)
       ELSE LET child == Child(h, parent, otherDir)
                h1 == SetChild(h, parent, otherDir, Child(h, child, dir))
                h2 == SetChild(h1, child, dir, parent)
            IN [h |-> h2, n |-> child, done |-> 0, ok |-> TRUE]

doubleRotate(h, parent, dir) ==
    LET otherDir == takeOpposite(dir)
        r1 == rotate(h, Child(h, parent, otherDir), otherDir)
    IN IF ~r1.ok THEN r1
       ELSE rotate(SetChild(r1.h, parent, otherDir, r1.n), parent, dir)

adjustBalance(h, root, dir, bal) ==
    LET n == Child(h, root, dir)
    IN IF n = Nil \/ Child(h, n, takeOpposite(dir)) = Nil THEN Panic(h)
       ELSE LET nn == Child(h, n, takeOpposite(dir))
                h1 == IF h[nn].balance = 0
                      THEN SetBalance(SetBalance(h, root, 0), n, 0)
                      ELSE IF h[nn].balance = bal
                      THEN SetBalance(SetBalance(h, root, -bal), n, 0)
                      ELSE SetBalance(SetBalance(h, root, 0), n, bal)
            IN [h |-> SetBalance(h1, nn, 0), n |-> root, done |-> 0, ok |-> TRUE]

insertBalance(h, root, dir) ==
    LET n == Child(h, root, dir)
        bal == IF dir = 0 THEN -1 ELSE 1
    IN IF n = Nil THEN Panic(h)
       ELSE IF h[n].balance = bal
       THEN rotate(SetBalance(SetBalance(h, root, 0), n, 0), root, takeOpposite(dir))
       ELSE LET a == adjustBalance(h, root, dir, bal)
            IN IF ~a.ok THEN a ELSE doubleRotate(a.h, root, takeOpposite(dir))

\* removeBalance; done is the value the call leaves in *done (0 when it is not set)
removeBalance(h, root, dir) ==
    LET opp == takeOpposite(dir)
        bal == IF dir = 0 THEN -1 ELSE 1
    IN IF Child(h, root, opp) = Nil THEN Panic(h)
       ELSE LET h0 == CopyNode(h, Child(h, root, opp))
                n == Len(h0)
                h1 == SetChild(h0, root, opp, n)
            IN IF h1[n].balance = -bal
               THEN rotate(SetBalance(SetBalance(h1, root, 0), n, 0), root, dir)
               ELSE IF h1[n].balance = bal
               THEN LET a == adjustBalance(h1, root, opp, -bal)
                    IN IF ~a.ok THEN a ELSE doubleRotate(a.h, root, dir)
               ELSE LET r == rotate(SetBalance(SetBalance(h1, root, -bal), n, bal), root, dir)
                    IN [r EXCEPT !.done = IF r.ok THEN 1 ELSE 0]

\* Immutable.get: (entry, found); a walk longer than the heap is a cycle
RECURSIVE getFrom(_, _, _, _)
getFrom(h, n, entry, fuel) ==
    IF n = Nil \/ fuel = 0 THEN [entry |-> NoEntry, found |-> FALSE]
    ELSE LET result == Compare(h[n].entry, entry)
         IN IF result = 0 THEN [entry |-> h[n].entry, found |-> TRUE]
            ELSE IF result > 0 THEN getFrom(h, Child(h, n, 0), entry, fuel - 1)
            ELSE getFrom(h, Child(h, n, 1), entry, fuel - 1)

get(h, im, entry) == getFrom(h, im.root, entry, Len(h) + 1)

\* the descent of insert, copying on the way down.  helper = Nil stands for
\* &dummy, whose children[1] is the root.
RECURSIVE insertDescend(_, _, _, _, _, _)
insertDescend(h, p, s, helper, entry, fuel) ==
    LET dir == Compare(h[p].entry, entry)
        normalized == normalizeComparison(dir)
    IN IF fuel = 0
       THEN [h |-> h, p |-> p, s |-> s, helper |-> helper, normalized |-> normalized,
             equal |-> FALSE, ok |-> FALSE]
       ELSE IF dir = 0
       THEN [h |-> h, p |-> p, s |-> s, helper |-> helper, normalized |-> normalized,
             equal |-> TRUE, ok |-> TRUE]
       ELSE IF Child(h, p, normalized) = Nil
       THEN [h |-> h, p |-> p, s |-> s, helper |-> helper, normalized |-> normalized,
             equal |-> FALSE, ok |-> TRUE]
       ELSE Let(SetChild(CopyNode(h, Child(h, p, normalized)), p, normalized, Len(h) + 1),
                LAMBDA h1 :
                    IF h1[Len(h1)].balance # 0
                    THEN insertDescend(h1, Len(h1), Len(h1), p, entry, fuel - 1)
                    ELSE insertDescend(h1, Len(h1), s, helper, entry, fuel - 1))

\* the walk from s to the new node q, adjusting balances
RECURSIVE insertWalk(_, _, _, _, _)
insertWalk(h, p, q, entry, fuel) ==
    IF p = q THEN [h |-> h, ok |-> TRUE]
    ELSE IF p = Nil \/ fuel = 0 THEN [h |-> h, ok |-> FALSE]
    ELSE LET normalized == normalizeComparison(Compare(h[p].entry, entry))
         IN Let(IF normalized = 0 THEN SetBalance(h, p, h[p].balance - 1)
                ELSE SetBalance(h, p, h[p].balance + 1),
                LAMBDA h1 :
                    IF normalized = -1 THEN [h |-> h1, ok |-> FALSE]
                    ELSE insertWalk(h1, Child(h1, p, normalized), q, entry, fuel - 1))

InsertResult(h, im, old, found, ok) ==
    [h |-> h, im |-> im, entry |-> old, found |-> found, ok |-> ok]

\* the end of insert: rebalance at s and splice the result in
insertFinish(h, im1, root, d, entry) ==
    Let(IF Abs(h[d.s].balance) > 1
        THEN insertBalance(h, d.s, normalizeComparison(Compare(h[d.s].entry, entry)))
        ELSE [h |-> h, n |-> d.s, done |-> 0, ok |-> TRUE],
        LAMBDA b :
            IF ~b.ok THEN InsertResult(b.h, im1, NoEntry, FALSE, FALSE)
            ELSE IF d.s = root
            THEN InsertResult(b.h, [im1 EXCEPT !.root = b.n], NoEntry, FALSE, TRUE)
            ELSE IF d.helper = Nil
            THEN InsertResult(b.h, im1, NoEntry, FALSE, TRUE)
            ELSE InsertResult(SetChild(b.h, d.helper,
                                       intFromBool(Child(b.h, d.helper, 1) = d.s), b.n),
                              im1, NoEntry, FALSE, TRUE))

\* Immutable.insert on the Immutable im (root, number)
insert(h, im, entry) ==
    IF im.root = Nil
    THEN InsertResult(Append(h, newNode(entry)),
                      [root |-> Len(h) + 1, number |-> im.number + 1], NoEntry, FALSE, TRUE)
    ELSE Let(insertDescend(h, im.root, im.root, Nil, entry, Len(h) + 1),
             LAMBDA d :
                 IF ~d.ok THEN InsertResult(d.h, im, NoEntry, FALSE, FALSE)
                 ELSE IF d.equal
                 THEN InsertResult(SetEntry(d.h, d.p, entry), im, d.h[d.p].entry, TRUE, TRUE)
                 ELSE Let(insertWalk(SetChild(Append(d.h, newNode(entry)), d.p, d.normalized,
                                              Len(d.h) + 1),
                                     d.s, Len(d.h) + 1, entry, Len(d.h) + 2),
                          LAMBDA w :
                              IF ~w.ok
                              THEN InsertResult(w.h, [im EXCEPT !.number = im.number + 1],
                                                NoEntry, FALSE, FALSE)
                              ELSE insertFinish(w.h, [im EXCEPT !.number = im.number + 1],
                                                im.root, d, entry)))

\* the descent of delete: cache and dirs hold the path above the match
\* (cache[i + 1] here is cache[i] of the code, top is Len(cache))
RECURSIVE deleteDescend(_, _, _, _, _, _)
deleteDescend(h, it, entry, cache, dirs, fuel) ==
    IF it = Nil
    THEN [found |-> FALSE, it |-> Nil, cache |-> cache, dirs |-> dirs, ok |-> TRUE]
    ELSE LET dir == Compare(h[it].entry, entry)
             normalized == normalizeComparison(dir)
         IN IF dir = 0
            THEN [found |-> TRUE, it |-> it, cache |-> cache, dirs |-> dirs, ok |-> TRUE]
            ELSE IF fuel = 0 \/ Len(cache) >= CacheSize
            THEN [found |-> FALSE, it |-> it, cache |-> cache, dirs |-> dirs, ok |-> FALSE]
            ELSE deleteDescend(h, Child(h, it, normalized), entry,
                               Append(cache, it), Append(dirs, normalized), fuel - 1)

\* the branch copy of delete, for i = the code's i + 1
RECURSIVE deleteCopy(_, _, _, _)
deleteCopy(h, cache, dirs, i) ==
    IF i > Len(cache) THEN [h |-> h, cache |-> cache]
    ELSE IF Child(h, cache[i], dirs[i]) # Nil
    THEN Let([h |-> SetChild(CopyNode(h, Child(h, cache[i], dirs[i])), cache[i], dirs[i],
                             Len(h) + 1),
              cache |-> IF i # Len(cache) THEN [cache EXCEPT ![i + 1] = Len(h) + 1]
                        ELSE cache],
             LAMBDA c : deleteCopy(c.h, c.cache, dirs, i + 1))
    ELSE deleteCopy(h, cache, dirs, i + 1)

\* the walk to the in-order successor; its path is pushed, not copied
RECURSIVE heirDescend(_, _, _, _, _)
heirDescend(h, heir, cache, dirs, fuel) ==
    IF Child(h, heir, 0) = Nil
    THEN [heir |-> heir, cache |-> cache, dirs |-> dirs, ok |-> TRUE]
    ELSE IF fuel = 0 \/ Len(cache) >= CacheSize
    THEN [heir |-> heir, cache |-> cache, dirs |-> dirs, ok |-> FALSE]
    ELSE heirDescend(h, Child(h, heir, 0), Append(cache, heir), Append(dirs, 0), fuel - 1)

\* the bottom-up loop of delete; top is the code's top
RECURSIVE deleteUnwind(_, _, _, _, _, _)
deleteUnwind(h, root, cache, dirs, top, done) ==
    IF ~(top - 1 >= 0 /\ done = 0) THEN [h |-> h, root |-> root, ok |-> TRUE]
    ELSE LET t == top - 1
             n == cache[t + 1]
         IN Let(IF dirs[t + 1] # 0 THEN SetBalance(h, n, h[n].balance - 1)
                ELSE SetBalance(h, n, h[n].balance + 1),
                LAMBDA h1 :
                    IF Abs(h1[n].balance) = 1 THEN [h |-> h1, root |-> root, ok |-> TRUE]
                    ELSE IF Abs(h1[n].balance) > 1
                    THEN Let(removeBalance(h1, n, dirs[t + 1]),
                             LAMBDA r :
                                 IF ~r.ok THEN [h |-> r.h, root |-> root, ok |-> FALSE]
                                 ELSE IF t # 0
                                 THEN deleteUnwind(SetChild(r.h, cache[t], dirs[t], r.n), root,
                                                   [cache EXCEPT ![t + 1] = r.n], dirs, t,
                                                   r.done)
                                 ELSE deleteUnwind(r.h, r.n, [cache EXCEPT ![t + 1] = r.n],
                                                   dirs, t, r.done))
                    ELSE deleteUnwind(h1, root, cache, dirs, t, done))

\* delete when the match has at most one child: its child takes its place
deleteLeaf(h, im1, it, cache, dirs, oldEntry) ==
    LET oldTop == Len(cache)
        dir == intFromBool(Child(h, it, 0) = Nil)
    IN Let(deleteUnwind(IF oldTop # 0
                        THEN SetChild(h, cache[oldTop], dirs[oldTop], Child(h, it, dir))
                        ELSE h,
                        IF oldTop # 0 THEN im1.root ELSE Child(h, it, dir),
                        cache, dirs, oldTop, 0),
           LAMBDA u : InsertResult(u.h, [im1 EXCEPT !.root = u.root], oldEntry, TRUE, u.ok))

\* delete when the match has two children: the heir's entry takes its place
\* and the heir is unlinked from its parent cache[top-1]
deleteHeir(h, im1, it, oldTop, hd, oldEntry) ==
    LET top == Len(hd.cache)
        h3 == SetEntry(h, it, h[hd.heir].entry)
        h4 == IF oldTop # 0 THEN SetChild(h3, hd.cache[oldTop], hd.dirs[oldTop], it) ELSE h3
    IN Let(SetChild(h4, hd.cache[top], intFromBool(hd.cache[top] = it), Child(h4, hd.heir, 1)),
           LAMBDA h5 :
               Let(deleteUnwind(h5, IF oldTop # 0 THEN im1.root ELSE it,
                                hd.cache, hd.dirs, top, 0),
                   LAMBDA u : InsertResult(u.h, [im1 EXCEPT !.root = u.root],
                                           oldEntry, TRUE, u.ok)))

\* delete once the match d.it is found under the path d.cache
deleteFound(h, im, d) ==
    Let(deleteCopy(h, d.cache, d.dirs, 1),
        LAMBDA bc :
            Let(CopyNode(bc.h, d.it),
                LAMBDA h2 :
                    LET it == Len(h2)
                        oldTop == Len(d.cache)
                        im1 == [root |-> im.root, number |-> im.number - 1]
                    IN IF Child(h2, it, 0) = Nil \/ Child(h2, it, 1) = Nil
                       THEN deleteLeaf(h2, im1, it, bc.cache, d.dirs, h[d.it].entry)
                       ELSE IF oldTop >= CacheSize
                       THEN InsertResult(h2, im1, h[d.it].entry, TRUE, FALSE)
                       ELSE Let(heirDescend(h2, Child(h2, it, 1), Append(bc.cache, it),
                                            Append(d.dirs, 1), Len(h2) + 1),
                                LAMBDA hd :
                                    IF ~hd.ok
                                    THEN InsertResult(h2, im1, h[d.it].entry, TRUE, FALSE)
                                    ELSE deleteHeir(h2, im1, it, oldTop, hd, h[d.it].entry))))

\* Immutable.delete on the Immutable im (root, number)
delete(h, im, entry) ==
    IF im.root = Nil THEN InsertResult(h, im, NoEntry, FALSE, TRUE)
    ELSE Let(deleteDescend(h, im.root, entry, <<>>, <<>>, Len(h) + 1),
             LAMBDA d :
                 IF ~d.ok THEN InsertResult(h, im, NoEntry, FALSE, FALSE)
                 ELSE IF ~d.found THEN InsertResult(h, im, NoEntry, FALSE, TRUE)
                 ELSE deleteFound(h, im, d))

\* Immutable.copy: a new Immutable over a copy of the root
copy(h, im) ==
    IF im.root # Nil
    THEN [h |-> CopyNode(h, im.root), im |-> [root |-> Len(h) + 1, number |-> im.number]]
    ELSE [h |-> h, im |-> im]

\* the loop of Insert (isInsert) or Delete over entries, on the copy cp
RECURSIVE applyAll(_, _, _, _, _)
applyAll(h, cp, entries, isInsert, out) ==
    IF entries = <<>> THEN [h |-> h, im |-> cp, out |-> out, ok |-> TRUE]
    ELSE Let(IF isInsert THEN insert(h, cp, Head(entries)) ELSE delete(h, cp, Head(entries)),
             LAMBDA r :
                 IF ~r.ok THEN [h |-> r.h, im |-> r.im, out |-> out, ok |-> FALSE]
                 ELSE Let(Append(out, [entry |-> r.entry, found |-> r.found]),
                          LAMBDA o : applyAll(r.h, r.im, Tail(entries), isInsert, o)))

\* Immutable.Insert: (new state, overwritten, wasOverwritten)
Insert(h, im, entries) ==
    IF Len(entries) = 0 THEN [h |-> h, im |-> im, out |-> <<>>, ok |-> TRUE]
    ELSE Let(copy(h, im), LAMBDA c : applyAll(c.h, c.im, entries, TRUE, <<>>))

\* Immutable.Delete: (new state, deleted, wasDeleted)
Delete(h, im, entries) ==
    IF Len(entries) = 0 THEN [h |-> h, im |-> im, out |-> <<>>, ok |-> TRUE]
    ELSE Let(copy(h, im), LAMBDA c : applyAll(c.h, c.im, entries, FALSE, <<>>))

\* New
New == [root |-> Nil, number |-> 0]

\* ---- what a caller can observe of an Immutable ----
Probe(k) == [k |-> k, t |-> 0]
\* Get of every key, as seen through the public Get
View(h, im) == [k \in AvlKeys |-> get(h, im, Probe(k))]

\* keys in order; a path longer than MaxKey + 1 repeats a key
RECURSIVE InOrder(_, _, _)
InOrder(h, n, fuel) ==
    IF n = Nil THEN <<>>
    ELSE IF fuel = 0 THEN <<0, 0>>
    ELSE InOrder(h, Child(h, n, 0), fuel - 1) \o <<h[n].entry.k>>
         \o InOrder(h, Child(h, n, 1), fuel - 1)

Ascending(s) == \A i \in 1..(Len(s) - 1) : s[i] < s[i + 1]
IsBST(h, im) == Ascending(InOrder(h, im.root, MaxKey + 1))

RECURSIVE Height(_, _, _)
Height(h, n, fuel) ==
    IF n = Nil \/ fuel = 0 THEN 0
    ELSE LET l == Height(h, Child(h, n, 0), fuel - 1)
             r == Height(h, Child(h, n, 1), fuel - 1)
         IN 1 + (IF l > r THEN l ELSE r)

RECURSIVE Nodes(_, _, _)
Nodes(h, n, fuel) ==
    IF n = Nil \/ fuel = 0 THEN {}
    ELSE {n} \cup Nodes(h, Child(h, n, 0), fuel - 1) \cup Nodes(h, Child(h, n, 1), fuel - 1)

HeightFuel == 2 * MaxKey + 2
IsBalanced(h, im) ==
    \A n \in Nodes(h, im.root, HeightFuel) :
        LET l == Height(h, Child(h, n, 0), HeightFuel)
            r == Height(h, Child(h, n, 1), HeightFuel)
        IN /\ h[n].balance = r - l
           /\ h[n].balance \in {-1, 0, 1}

\* ---- the tree's state machine ----
\* a returned snapshot: the Immutable, the call that returned it, and what
\* Get and Len answered when it was returned
Snapshot(h, im, op, from, arg) ==
    [root |-> im.root, number |-> im.number, op |-> op, from |-> from, arg |-> arg,
     seen |-> View(h, im), len |-> im.number]

TagBase == MaxInit + MaxBatch
\* the entries of the n-th call, given its keys
RECURSIVE Tagged(_, _, _)
Tagged(ks, n, i) ==
    IF i > Len(ks) THEN <<>>
    ELSE <<[k |-> ks[i], t |-> n * TagBase + i]>> \o Tagged(ks, n, i + 1)

RECURSIVE KeySeqs(_)
KeySeqs(n) ==
    IF n = 0 THEN {<<>>}
    ELSE LET S == KeySeqs(n - 1)
         IN S \cup {Append(s, k) : s \in {x \in S : Len(x) = n - 1}, k \in AvlKeys}

\* New(), then one Insert of up to MaxInit distinct keys on it
AInit ==
    \E ks \in {s \in KeySeqs(MaxInit) : NoDup(s)} :
        \E r \in {Insert(<<>>, New, Tagged(ks, 0, 1))} :
            /\ avlHeap = r.h
            /\ avlSnaps = <<Snapshot(<<>>, New, "New", 0, <<>>),
                            Snapshot(r.h, r.im, "Insert", 1, ks)>>
            /\ avlPanic = FALSE

AIdle ==
    /\ avlHeap = <<>>
    /\ avlSnaps = <<>>
    /\ avlPanic = FALSE

CanCall == ~avlPanic /\ Len(avlSnaps) < 2 + MaxOps

Returned(r, op, i, ks) ==
    IF r.ok
    THEN /\ avlHeap' = r.h
         /\ avlSnaps' = Append(avlSnaps, Snapshot(r.h, r.im, op, i, ks))
         /\ avlPanic' = FALSE
    ELSE /\ avlPanic' = TRUE
         /\ UNCHANGED <<avlHeap, avlSnaps>>

\* s.Insert(ks...) on the i-th returned snapshot
AvlInsert(i, ks) ==
    /\ UNCHANGED nonA
    /\ CanCall
    /\ \E r \in {Insert(avlHeap, avlSnaps[i], Tagged(ks, Len(avlSnaps), 1))} :
           Returned(r, "Insert", i, ks)

\* s.Delete(ks...) on the i-th returned snapshot
AvlDelete(i, ks) ==
    /\ UNCHANGED nonA
    /\ CanCall
    /\ \E r \in {Delete(avlHeap, avlSnaps[i], Tagged(ks, Len(avlSnaps), 1))} :
           Returned(r, "Delete", i, ks)

ANext ==
    \/ \E i \in 1..Len(avlSnaps), ks \in KeySeqs(MaxBatch) : AvlInsert(i, ks)
    \/ \E i \in 1..Len(avlSnaps), ks \in KeySeqs(MaxBatch) : AvlDelete(i, ks)

\* a call with up to MaxPair keys can name a key twice
MaxPair == MaxBatch + 1

\* ------------------------------------------------------------------------
\* slice/skip: nodes live in a heap (0 is nil); forward[i] and widths[i] of
\* the code are forward[i + 1] and widths[i + 1] here.  A uint64 is kept as
\* its signed residue: x < 0 stands for 2^64 + x, so sums and differences
\* are exact and only the order needs care (ULessEq).
\* ------------------------------------------------------------------------
MaxSkipKey == 3   \* keys are 1..MaxSkipKey
MaxDraw == 2      \* levels drawn by generateLevel are 1..MaxDraw
MaxSkipInit == 3  \* entries of the first Insert
MaxSkipOps == 2   \* calls after it
MaxIterIdle == 2  \* calls of Next made after an iterator is exhausted
MaxLevel == 8     \* sl.maxLevel of New(uint8(0))

SkipKeys == 1..MaxSkipKey

ULessEq(a, b) == IF a < 0 THEN b < 0 /\ a <= b ELSE b < 0 \/ a <= b

\* the levels generateLevel(maxLevel) can return
generateLevel(maxLevel) == 1..Min(MaxDraw, maxLevel - 1)

\* newNode of the skip list
slNewNode(cmp, hasEntry, maxLevels) ==
    [forward |-> [i \in 1..maxLevels |-> Nil], widths |-> [i \in 1..maxLevels |-> 0],
     entry |-> cmp, hasEntry |-> hasEntry]

\* n is a node with a level i
HasLevel(N, n, i) == n # Nil /\ i < Len(N[n].forward)

\* the inner loop of search at level offset
RECURSIVE searchWalk(_, _, _, _, _, _, _)
searchWalk(N, n, pos, offset, alreadyChecked, cmp, fuel) ==
    IF ~HasLevel(N, n, offset) \/ fuel = 0 THEN [n |-> n, pos |-> pos, ok |-> FALSE]
    ELSE IF /\ N[n].forward[offset + 1] # Nil
            /\ N[n].forward[offset + 1] # alreadyChecked
            /\ N[N[n].forward[offset + 1]].hasEntry
            /\ Compare(N[N[n].forward[offset + 1]].entry, cmp) < 0
    THEN Let([n |-> N[n].forward[offset + 1], pos |-> pos + N[n].widths[offset + 1]],
             LAMBDA s : searchWalk(N, s.n, s.pos, offset, alreadyChecked, cmp, fuel - 1))
    ELSE [n |-> n, pos |-> pos, ok |-> TRUE]

\* the inner loop of searchByPosition at level offset
RECURSIVE positionWalk(_, _, _, _, _, _)
positionWalk(N, n, pos, offset, position, fuel) ==
    IF ~HasLevel(N, n, offset) \/ fuel = 0 THEN [n |-> n, pos |-> pos, ok |-> FALSE]
    ELSE IF /\ N[n].forward[offset + 1] # Nil
            /\ ULessEq(pos + N[n].widths[offset + 1], position)
    THEN Let([n |-> N[n].forward[offset + 1], pos |-> pos + N[n].widths[offset + 1]],
             LAMBDA s : positionWalk(N, s.n, s.pos, offset, position, fuel - 1))
    ELSE [n |-> n, pos |-> pos, ok |-> TRUE]

SearchResult(n, pos, cache, posCache, ok) ==
    [n |-> n, pos |-> pos, cache |-> cache, posCache |-> posCache, ok |-> ok]

\* the outer loop of search (byKey) and of searchByPosition, i = the code's i;
\* c is the loop's state: n, pos, and the update and widthCache slices
RECURSIVE searchLevels(_, _, _, _, _, _, _)
searchLevels(N, sl, i, c, byKey, arg, update) ==
    IF i > sl.level \/ ~c.ok THEN c
    ELSE LET offset == sl.level - i
         IN Let(IF byKey THEN searchWalk(N, c.n, c.pos, offset, c.checked, arg, Len(N) + 1)
                ELSE positionWalk(N, c.n, c.pos, offset, arg, Len(N) + 1),
                LAMBDA w :
                    Let([n |-> w.n, pos |-> w.pos, checked |-> w.n, ok |-> w.ok,
                         cache |-> IF update /\ w.ok
                                   THEN [c.cache EXCEPT ![offset + 1] = w.n] ELSE c.cache,
                         posCache |-> IF update /\ w.ok
                                      THEN [c.posCache EXCEPT ![offset + 1] = w.pos]
                                      ELSE c.posCache],
                        LAMBDA c1 : searchLevels(N, sl, i + 1, c1, byKey, arg, update)))

SearchStart(sl) ==
    [n |-> sl.head, pos |-> 0, checked |-> Nil, ok |-> TRUE,
     cache |-> sl.cache, posCache |-> sl.posCache]

\* SkipList.search: (node, position), and update and widthCache as it leaves them
search(N, sl, cmp, update) ==
    IF sl.num = 0 THEN SearchResult(Nil, 1, sl.cache, sl.posCache, TRUE)
    ELSE Let(searchLevels(N, sl, 0, SearchStart(sl), TRUE, cmp, update),
             LAMBDA c : IF ~c.ok THEN SearchResult(Nil, 1, c.cache, c.posCache, FALSE)
                        ELSE SearchResult(N[c.n].forward[1], c.pos + 1, c.cache, c.posCache,
                                          TRUE))

\* SkipList.searchByPosition
searchByPosition(N, sl, position, update) ==
    IF sl.num = 0 THEN SearchResult(Nil, 1, sl.cache, sl.posCache, TRUE)
    ELSE IF ~ULessEq(position, sl.num) THEN SearchResult(Nil, 1, sl.cache, sl.posCache, TRUE)
    ELSE Let(searchLevels(N, sl, 0, SearchStart(sl), FALSE, position, update),
             LAMBDA c : SearchResult(c.n, c.pos + 1, c.cache, c.posCache, c.ok))

\* SkipList.resetMaxLevel
RECURSIVE resetMaxLevel(_, _)
resetMaxLevel(N, sl) ==
    IF sl.level < 1 THEN [sl EXCEPT !.level = 1]
    ELSE IF N[sl.head].forward[sl.level] = Nil /\ sl.level > 1
    THEN resetMaxLevel(N, [sl EXCEPT !.level = sl.level - 1])
    ELSE sl

\* SkipList.GetWithPosition: (entry, position, found)
GetWithPositionRaw(N, sl, cmp) ==
    LET r == search(N, sl, cmp, FALSE)
    IN IF r.n = Nil \/ ~N[r.n].hasEntry THEN [entry |-> NoEntry, pos |-> 0, found |-> FALSE]
       ELSE [entry |-> N[r.n].entry, pos |-> r.pos, found |-> TRUE]

GetWithPosition(N, sl, cmp) ==
    LET r == search(N, sl, cmp, FALSE)
    IN IF r.n = Nil \/ ~N[r.n].hasEntry THEN [entry |-> NoEntry, pos |-> 0, found |-> FALSE]
       ELSE [entry |-> N[r.n].entry, pos |-> r.pos - 1, found |-> TRUE]

\* SkipList.Get of one comparator: (entry, found)
slGet(N, sl, cmp) ==
    LET r == search(N, sl, cmp, FALSE)
    IN IF r.n # Nil /\ N[r.n].hasEntry /\ Compare(N[r.n].entry, cmp) = 0
       THEN [entry |-> N[r.n].entry, found |-> TRUE]
       ELSE [entry |-> NoEntry, found |-> FALSE]

\* a ByPosition that searches for position, not position + 1
ByPositionBefore(N, sl, position) ==
    LET r == searchByPosition(N, sl, position, FALSE)
    IN IF r.n = Nil \/ ~N[r.n].hasEntry THEN [entry |-> NoEntry, found |-> FALSE]
       ELSE [entry |-> N[r.n].entry, found |-> TRUE]

\* SkipList.ByPosition: (entry, found)
ByPosition(N, sl, position) ==
    LET r == searchByPosition(N, sl, position + 1, FALSE)
    IN IF r.n = Nil \/ ~N[r.n].hasEntry THEN [entry |-> NoEntry, found |-> FALSE]
       ELSE [entry |-> N[r.n].entry, found |-> TRUE]

SlResult(N, sl, entry, found, ok) ==
    [N |-> N, sl |-> sl, entry |-> entry, found |-> found, ok |-> ok]

\* insertNode, when the new node is taller than the list: the head precedes it
raiseLevel(sl, nodeLevel) ==
    IF nodeLevel > sl.level
    THEN [sl EXCEPT !.level = nodeLevel,
                    !.cache = [i \in 1..MaxLevel |->
                                  IF sl.level < i /\ i <= nodeLevel THEN sl.head
                                  ELSE sl.cache[i]]]
    ELSE sl

\* insertNode's first loop, from level i up: link nn in and set both widths
RECURSIVE insertLink(_, _, _, _, _, _)
insertLink(N, sl, nn, pos, i, nodeLevel) ==
    IF i >= nodeLevel THEN [N |-> N, ok |-> TRUE]
    ELSE IF ~HasLevel(N, sl.cache[i + 1], i) THEN [N |-> N, ok |-> FALSE]
    ELSE LET c == sl.cache[i + 1]
             formerWidth == N[c].widths[i + 1]
         IN Let([N EXCEPT ![nn].forward[i + 1] = N[c].forward[i + 1],
                          ![nn].widths[i + 1] = IF formerWidth = 0 THEN 0
                                                ELSE sl.posCache[i + 1] + formerWidth + 1 - pos,
                          ![c].forward[i + 1] = nn,
                          ![c].widths[i + 1] = IF nn # Nil THEN pos - sl.posCache[i + 1]
                                               ELSE formerWidth],
                LAMBDA N1 : insertLink(N1, sl, nn, pos, i + 1, nodeLevel))

\* a variant of the second loop that leaves the taller predecessors alone
insertBumpSkips(N, sl, i) == [N |-> N, ok |-> TRUE]

\* insertNode's second loop, from level i up: predecessors above the new node
\* now span one more element
RECURSIVE insertBump(_, _, _)
insertBump(N, sl, i) ==
    IF i >= sl.level THEN [N |-> N, ok |-> TRUE]
    ELSE IF ~HasLevel(N, sl.cache[i + 1], i) THEN [N |-> N, ok |-> FALSE]
    ELSE IF N[sl.cache[i + 1]].forward[i + 1] = Nil THEN insertBump(N, sl, i + 1)
    ELSE Let([N EXCEPT ![sl.cache[i + 1]].widths[i + 1] = @ + 1],
             LAMBDA N1 : insertBump(N1, sl, i + 1))

\* an insertNode whose update keeps the old entry
insertNodeKeeps(N, sl, n, cmp, pos, allowDuplicate, nodeLevel) ==
    IF ~allowDuplicate /\ n # Nil /\ N[n].hasEntry /\ Compare(N[n].entry, cmp) = 0
    THEN SlResult(N, sl, N[n].entry, TRUE, TRUE)
    ELSE Let(raiseLevel([sl EXCEPT !.num = sl.num + 1], nodeLevel),
             LAMBDA sl1 :
                 Let(insertLink(Append(N, slNewNode(cmp, TRUE, nodeLevel)), sl1, Len(N) + 1,
                                pos, 0, nodeLevel),
                     LAMBDA a :
                         IF ~a.ok THEN SlResult(a.N, sl1, NoEntry, FALSE, FALSE)
                         ELSE Let(insertBump(a.N, sl1, nodeLevel),
                                  LAMBDA b : SlResult(b.N, sl1, NoEntry, FALSE, b.ok))))

\* insertNode, with the level generateLevel returned; sl.cache and sl.posCache
\* are the cache and posCache arguments
insertNode(N, sl, n, cmp, pos, allowDuplicate, nodeLevel) ==
    IF ~allowDuplicate /\ n # Nil /\ N[n].hasEntry /\ Compare(N[n].entry, cmp) = 0
    THEN SlResult([N EXCEPT ![n].entry = cmp], sl, N[n].entry, TRUE, TRUE)
    ELSE Let(raiseLevel([sl EXCEPT !.num = sl.num + 1], nodeLevel),
             LAMBDA sl1 :
                 Let(insertLink(Append(N, slNewNode(cmp, TRUE, nodeLevel)), sl1, Len(N) + 1,
                                pos, 0, nodeLevel),
                     LAMBDA a :
                         IF ~a.ok THEN SlResult(a.N, sl1, NoEntry, FALSE, FALSE)
                         ELSE Let(insertBump(a.N, sl1, nodeLevel),
                                  LAMBDA b : SlResult(b.N, sl1, NoEntry, FALSE, b.ok))))

WithCache(sl, r) == [sl EXCEPT !.cache = r.cache, !.posCache = r.posCache]

\* an insert that adds a node even when the key is present
slInsertDuplicates(N, sl, cmp, nodeLevel) ==
    Let(search(N, sl, cmp, TRUE),
        LAMBDA r : IF ~r.ok THEN SlResult(N, sl, NoEntry, FALSE, FALSE)
                   ELSE insertNode(N, WithCache(sl, r), r.n, cmp, r.pos, TRUE, nodeLevel))

\* SkipList.insert
slInsert(N, sl, cmp, nodeLevel) ==
    Let(search(N, sl, cmp, TRUE),
        LAMBDA r : IF ~r.ok THEN SlResult(N, sl, NoEntry, FALSE, FALSE)
                   ELSE insertNode(N, WithCache(sl, r), r.n, cmp, r.pos, FALSE, nodeLevel))

\* an insertAtPosition that takes the position as given
insertAtPositionAsGiven(N, sl, position, cmp, nodeLevel) ==
    Let(searchByPosition(N, sl, position, TRUE),
        LAMBDA r : IF ~r.ok THEN SlResult(N, sl, NoEntry, FALSE, FALSE)
                   ELSE insertNode(N, WithCache(sl, r), r.n, cmp, r.pos, TRUE, nodeLevel))

\* SkipList.insertAtPosition
insertAtPosition(N, sl, position, cmp, nodeLevel) ==
    Let(searchByPosition(N, sl, IF ~ULessEq(position, sl.num) THEN sl.num ELSE position, TRUE),
        LAMBDA r : IF ~r.ok THEN SlResult(N, sl, NoEntry, FALSE, FALSE)
                   ELSE insertNode(N, WithCache(sl, r), r.n, cmp, r.pos, TRUE, nodeLevel))

\* a loop that unlinks nothing
deleteUnlinkNone(N, sl, n, i) == [N |-> N, ok |-> TRUE]

\* a replaceAtPosition that searches for position, not position + 1
replaceAtPositionBefore(N, sl, position, cmp) ==
    Let(searchByPosition(N, sl, position, FALSE),
        LAMBDA r : IF ~r.ok THEN SlResult(N, sl, NoEntry, FALSE, FALSE)
                   ELSE IF r.n = Nil \/ ~N[r.n].hasEntry
                   THEN SlResult(N, sl, NoEntry, FALSE, TRUE)
                   ELSE SlResult([N EXCEPT ![r.n].entry = cmp], sl, NoEntry, TRUE, TRUE))

\* SkipList.replaceAtPosition; found tells whether an entry was replaced
replaceAtPosition(N, sl, position, cmp) ==
    Let(searchByPosition(N, sl, position + 1, FALSE),
        LAMBDA r : IF ~r.ok THEN SlResult(N, sl, NoEntry, FALSE, FALSE)
                   ELSE IF r.n = Nil \/ ~N[r.n].hasEntry
                   THEN SlResult(N, sl, NoEntry, FALSE, TRUE)
                   ELSE SlResult([N EXCEPT ![r.n].entry = cmp], sl, NoEntry, TRUE, TRUE))

\* delete's loop over the levels, from level i up: unlink n or shorten the
\* span over it
RECURSIVE deleteUnlink(_, _, _, _)
deleteUnlink(N, sl, n, i) ==
    IF i > sl.level THEN [N |-> N, ok |-> TRUE]
    ELSE IF ~HasLevel(N, sl.cache[i + 1], i) THEN [N |-> N, ok |-> FALSE]
    ELSE LET c == sl.cache[i + 1]
         IN IF N[c].forward[i + 1] # n
            THEN IF N[c].forward[i + 1] # Nil
                 THEN Let([N EXCEPT ![c].widths[i + 1] = @ - 1],
                          LAMBDA N1 : deleteUnlink(N1, sl, n, i + 1))
                 ELSE deleteUnlink(N, sl, n, i + 1)
            ELSE IF ~HasLevel(N, n, i) THEN [N |-> N, ok |-> FALSE]
            ELSE Let([N EXCEPT ![c].widths[i + 1] = @ + N[n].widths[i + 1] - 1,
                               ![c].forward[i + 1] = N[n].forward[i + 1]],
                     LAMBDA N1 : deleteUnlink(N1, sl, n, i + 1))

\* a delete that leaves the level as it is
deleteLowerNone(N, sl) == [N |-> N, sl |-> sl]

\* delete's last loop: drop the levels the head no longer uses
RECURSIVE deleteLower(_, _)
deleteLower(N, sl) ==
    IF sl.level > 1 /\ N[sl.head].forward[sl.level] = Nil
    THEN Let([N EXCEPT ![sl.head].widths[sl.level + 1] = 0],
             LAMBDA N1 : deleteLower(N1, [sl EXCEPT !.level = sl.level - 1]))
    ELSE [N |-> N, sl |-> sl]

\* SkipList.delete
slDelete(N, sl, cmp) ==
    Let(search(N, sl, cmp, TRUE),
        LAMBDA r :
            IF ~r.ok THEN SlResult(N, sl, NoEntry, FALSE, FALSE)
            ELSE IF r.n = Nil \/ ~N[r.n].hasEntry \/ Compare(N[r.n].entry, cmp) # 0
            THEN SlResult(N, WithCache(sl, r), NoEntry, FALSE, TRUE)
            ELSE Let(deleteUnlink(N, [WithCache(sl, r) EXCEPT !.num = sl.num - 1], r.n, 0),
                     LAMBDA u :
                         IF ~u.ok THEN SlResult(u.N, WithCache(sl, r), NoEntry, FALSE, FALSE)
                         ELSE Let(deleteLower(u.N, [WithCache(sl, r) EXCEPT
                                                       !.num = sl.num - 1]),
                                  LAMBDA d : SlResult(d.N, d.sl, N[r.n].entry, TRUE, TRUE))))

\* a variant of the loop that cuts nothing
splitCutNone(N, sl, rh, index, i) == [N |-> N, ok |-> TRUE]

\* splitAt's loop, from level i up: the right head takes over what follows
\* the cut; rh is the right head
RECURSIVE splitCut(_, _, _, _, _)
splitCut(N, sl, rh, index, i) ==
    IF i > sl.level THEN [N |-> N, ok |-> TRUE]
    ELSE IF ~HasLevel(N, sl.cache[i + 1], i) THEN [N |-> N, ok |-> FALSE]
    ELSE LET c == sl.cache[i + 1]
         IN Let([N EXCEPT ![rh].forward[i + 1] = N[c].forward[i + 1],
                          ![rh].widths[i + 1] =
                              IF N[c].forward[i + 1] # Nil
                              THEN N[c].widths[i + 1] - (index - sl.posCache[i + 1])
                              ELSE @,
                          ![c].widths[i + 1] = 0,
                          ![c].forward[i + 1] = Nil],
                LAMBDA N1 : splitCut(N1, sl, rh, index, i + 1))

\* splitAt: (left, right); left is sl itself
splitAt(N, sl, index) ==
    Let(searchByPosition(Append(N, slNewNode(NoEntry, FALSE, MaxLevel)), sl, index, TRUE),
        LAMBDA r :
            IF ~r.ok THEN [N |-> N, left |-> sl, right |-> sl, ok |-> FALSE]
            ELSE Let(splitCut(Append(N, slNewNode(NoEntry, FALSE, MaxLevel)),
                              WithCache(sl, r), Len(N) + 1, index, 0),
                     LAMBDA s :
                         [N |-> s.N,
                          left |-> resetMaxLevel(s.N, [WithCache(sl, r) EXCEPT
                                                          !.num = index]),
                          right |-> resetMaxLevel(s.N,
                                        [level |-> sl.level, head |-> Len(N) + 1,
                                         num |-> sl.num - index,
                                         cache |-> [i \in 1..MaxLevel |-> Nil],
                                         posCache |-> [i \in 1..MaxLevel |-> 0]]),
                          ok |-> s.ok]))

\* New(uint8(0)) with its head at address h
slNew(h) ==
    [level |-> 0, head |-> h, num |-> 0,
     cache |-> [i \in 1..MaxLevel |-> Nil], posCache |-> [i \in 1..MaxLevel |-> 0]]

\* the loop of Insert over comparators, with the level drawn for each
RECURSIVE slInsertAll(_, _, _, _)
slInsertAll(N, sl, cmps, levels) ==
    IF cmps = <<>> THEN [N |-> N, sl |-> sl, ok |-> TRUE]
    ELSE Let(slInsert(N, sl, Head(cmps), Head(levels)),
             LAMBDA r : IF ~r.ok THEN [N |-> r.N, sl |-> r.sl, ok |-> FALSE]
                        ELSE slInsertAll(r.N, r.sl, Tail(cmps), Tail(levels)))

\* the loop of Delete over comparators
RECURSIVE slDeleteAll(_, _, _)
slDeleteAll(N, sl, cmps) ==
    IF cmps = <<>> THEN [N |-> N, sl |-> sl, ok |-> TRUE]
    ELSE Let(slDelete(N, sl, Head(cmps)),
             LAMBDA r : IF ~r.ok THEN [N |-> r.N, sl |-> r.sl, ok |-> FALSE]
                        ELSE slDeleteAll(r.N, r.sl, Tail(cmps)))

\* ---- slice/skip/iterator.go ----
\* nilIterator: the zero iterator
nilIterator == [first |-> FALSE, n |-> Nil]

\* SkipList.iter
iter(N, sl, cmp) ==
    Let(search(N, sl, cmp, FALSE),
        LAMBDA r : IF ~r.ok THEN [it |-> nilIterator, ok |-> FALSE]
                   ELSE IF r.n = Nil \/ ~N[r.n].hasEntry THEN [it |-> nilIterator, ok |-> TRUE]
                   ELSE [it |-> [first |-> TRUE, n |-> r.n], ok |-> TRUE])

\* an iterator.Next that advances on its first call too
iteratorNextAdvances(N, it) ==
    IF it.n = Nil THEN [it |-> it, ret |-> FALSE]
    ELSE Let(N[it.n].forward[1],
             LAMBDA f : [it |-> [first |-> FALSE, n |-> f], ret |-> f # Nil /\ N[f].hasEntry])

\* iterator.Next
iteratorNext(N, it) ==
    IF it.first
    THEN [it |-> [it EXCEPT !.first = FALSE], ret |-> it.n # Nil /\ N[it.n].hasEntry]
    ELSE IF it.n = Nil THEN [it |-> it, ret |-> FALSE]
    ELSE Let(N[it.n].forward[1],
             LAMBDA f : [it |-> [it EXCEPT !.n = f], ret |-> f # Nil /\ N[f].hasEntry])

\* iterator.Value
iteratorValue(N, it) == IF it.n = Nil \/ ~N[it.n].hasEntry THEN NoEntry ELSE N[it.n].entry

\* no iterator was handed out
NoIter == [live |-> FALSE, list |-> 0, key |-> 0, it |-> nilIterator, out |-> <<>>, rets |-> <<>>]

\* ---- the skip lists' state machine ----
\* sequences over S of length at most n
RECURSIVE SeqsUpTo(_, _)
SeqsUpTo(S, n) ==
    IF n = 0 THEN {<<>>}
    ELSE LET T == SeqsUpTo(S, n - 1)
         IN T \cup {Append(s, x) : s \in {y \in T : Len(y) = n - 1}, x \in S}

\* New(uint8(0)), then one Insert of up to MaxSkipInit distinct keys, for
\* every level generateLevel can return
SInit ==
    \E ks \in {s \in SeqsUpTo(SkipKeys, MaxSkipInit) : NoDup(s)},
       levels \in SeqsUpTo(generateLevel(MaxLevel), MaxSkipInit) :
        /\ Len(levels) = Len(ks)
        /\ \E r \in {slInsertAll(<<slNewNode(NoEntry, FALSE, MaxLevel)>>, slNew(1),
                                  Tagged(ks, 1, 1), levels)} :
               /\ skNodes = r.N
               /\ skLists = <<r.sl>>
               /\ skLog = <<[op |-> "Insert", list |-> 1, arg |-> <<ks, levels>>]>>
               /\ skPanic = FALSE
               /\ skIter = NoIter

SIdle ==
    /\ skNodes = <<>>
    /\ skLists = <<>>
    /\ skLog = <<>>
    /\ skPanic = FALSE
    /\ skIter = NoIter

SkCanCall == ~skPanic /\ Len(skLog) < 1 + MaxSkipOps

\* the entries of a call, given its keys: tagged with the call's number
SkTagged(ks) == Tagged(ks, Len(skLog) + 1, 1)

\* the call on list l returned, leaving the heap N and the list sl
SkReturned(l, r, op, arg) ==
    IF r.ok
    THEN /\ skNodes' = r.N
         /\ skLists' = [skLists EXCEPT ![l] = r.sl]
         /\ skLog' = Append(skLog, [op |-> op, list |-> l, arg |-> arg])
         /\ skPanic' = FALSE
    ELSE /\ skPanic' = TRUE
         /\ UNCHANGED <<skNodes, skLists, skLog>>

\* sl.Insert(ks...) on list l, generateLevel returning levels
SkipInsert(l, ks, levels) ==
    /\ UNCHANGED nonS
    /\ SkCanCall
    /\ Len(levels) = Len(ks)
    /\ \E r \in {slInsertAll(skNodes, skLists[l], SkTagged(ks), levels)} :
           SkReturned(l, r, "Insert", <<ks, levels>>)

\* sl.Delete(ks...) on list l
SkipDelete(l, ks) ==
    /\ UNCHANGED nonS
    /\ SkCanCall
    /\ \E r \in {slDeleteAll(skNodes, skLists[l], SkTagged(ks))} :
           SkReturned(l, r, "Delete", <<ks>>)

\* sl.InsertAtPosition(position, k) on list l, generateLevel returning level
SkipInsertAtPosition(l, position, k, level) ==
    /\ UNCHANGED nonS
    /\ SkCanCall
    /\ \E r \in {insertAtPosition(skNodes, skLists[l], position,
                                  SkTagged(<<k>>)[1], level)} :
           SkReturned(l, r, "InsertAtPosition", <<position, k, level>>)

\* sl.ReplaceAtPosition(position, k) on list l; position -1 is the largest uint64
SkipReplaceAtPosition(l, position, k) ==
    /\ UNCHANGED nonS
    /\ SkCanCall
    /\ \E r \in {replaceAtPosition(skNodes, skLists[l], position, SkTagged(<<k>>)[1])} :
           SkReturned(l, r, "ReplaceAtPosition", <<position, k>>)

\* sl.SplitAt(index) on list l: the right list, if any, is a new list
SkipSplitAt(l, index) ==
    /\ UNCHANGED nonS
    /\ SkCanCall
    /\ IF index + 1 >= skLists[l].num
       THEN /\ skLog' = Append(skLog, [op |-> "SplitAt", list |-> l, arg |-> <<index>>])
            /\ UNCHANGED <<skNodes, skLists, skPanic>>
       ELSE \E r \in {splitAt(skNodes, skLists[l], index + 1)} :
                IF r.ok
                THEN /\ skNodes' = r.N
                     /\ skLists' = Append([skLists EXCEPT ![l] = r.left], r.right)
                     /\ skLog' = Append(skLog, [op |-> "SplitAt", list |-> l,
                                                arg |-> <<index>>])
                     /\ skPanic' = FALSE
                ELSE /\ skPanic' = TRUE
                     /\ UNCHANGED <<skNodes, skLists, skLog>>

SInsertNext ==
    \E l \in 1..Len(skLists), ks \in SeqsUpTo(SkipKeys, MaxBatch),
       levels \in SeqsUpTo(generateLevel(MaxLevel), MaxBatch) : SkipInsert(l, ks, levels)

SDeleteNext ==
    \E l \in 1..Len(skLists), ks \in SeqsUpTo(SkipKeys, MaxBatch) : SkipDelete(l, ks)

SSplitNext ==
    \E l \in 1..Len(skLists), index \in 0..(MaxSkipInit + MaxSkipOps) :
        /\ index <= skLists[l].num
        /\ SkipSplitAt(l, index)

SNext ==
    \/ SInsertNext
    \/ SDeleteNext
    \/ \E l \in 1..Len(skLists), position \in 0..(MaxSkipInit + MaxSkipOps + 1), k \in SkipKeys,
          level \in generateLevel(MaxLevel) :
           /\ position <= skLists[l].num + 1
           /\ SkipInsertAtPosition(l, position, k, level)
    \/ SSplitNext

\* Insert and Delete alone: lists that stay sorted
SOrderedNext ==
    \/ SInsertNext
    \/ SDeleteNext

\* Iter(key) on list l
SkipIter(l, k) ==
    /\ UNCHANGED nonI
    /\ ~skPanic
    /\ ~skIter.live
    /\ \E r \in {iter(skNodes, skLists[l], Probe(k))} :
           /\ skPanic' = ~r.ok
           /\ skIter' = IF r.ok THEN [NoIter EXCEPT !.live = TRUE, !.list = l, !.key = k,
                                                    !.it = r.it]
                         ELSE skIter
    /\ UNCHANGED <<skNodes, skLists, skLog>>

\* the calls of Next that returned false
Exhausted(rets) == Cardinality({i \in 1..Len(rets) : ~rets[i]})

\* one Next on the iterator, and Value when it returned true
SkipIterNext ==
    /\ UNCHANGED <<nonI, svars>>
    /\ skIter.live
    /\ Exhausted(skIter.rets) < MaxIterIdle
    /\ \E r \in {iteratorNext(skNodes, skIter.it)} :
           skIter' = [skIter EXCEPT !.it = r.it,
                                    !.rets = Append(@, r.ret),
                                    !.out = IF r.ret THEN Append(@, iteratorValue(skNodes, r.it))
                                            ELSE @]

\* Insert and Delete, then one Iter and the calls of its Next
SIterNext ==
    \/ ~skIter.live /\ SInsertNext
    \/ ~skIter.live /\ SDeleteNext
    \/ \E l \in 1..Len(skLists), k \in 0..(MaxSkipKey + 1) : SkipIter(l, k)
    \/ SkipIterNext

\* Insert, Delete and ReplaceAtPosition
SReplaceNext ==
    \/ SInsertNext
    \/ SDeleteNext
    \/ \E l \in 1..Len(skLists), position \in -1..(MaxSkipInit + MaxSkipOps), k \in SkipKeys :
           /\ position <= skLists[l].num + 1
           /\ SkipReplaceAtPosition(l, position, k)

\* Insert, Delete and SplitAt with any index, the largest uint64 (-1) included
SSplitAnyNext ==
    \/ SInsertNext
    \/ SDeleteNext
    \/ \E l \in 1..Len(skLists), index \in -1..(MaxSkipInit + MaxSkipOps) :
           /\ index <= skLists[l].num
           /\ SkipSplitAt(l, index)

\* Insert, Delete and SplitAt: sorted lists and their halves
SSortedSplitNext ==
    \/ SInsertNext
    \/ SDeleteNext
    \/ SSplitNext

\* ---- what a skip list holds ----
\* the nodes of the level-0 chain after n, in order
RECURSIVE Chain(_, _, _)
Chain(N, n, fuel) ==
    IF fuel = 0 \/ N[n].forward[1] = Nil THEN <<>>
    ELSE <<N[n].forward[1]>> \o Chain(N, N[n].forward[1], fuel - 1)

\* head first, then the level-0 chain
ChainOf(N, sl) == <<sl.head>> \o Chain(N, sl.head, Len(N))

IndexIn(s, x) == CHOOSE i \in 1..Len(s) : s[i] = x

\* the entries of the list, in level-0 order
EntriesOf(N, sl) ==
    LET ch == ChainOf(N, sl) IN [j \in 1..(Len(ch) - 1) |-> N[ch[j + 1]].entry]

\* Len, Get, GetWithPosition and ByPosition answer as a sorted list holding
\* exactly the entries es would
AnswersAs(N, sl, es) ==
    /\ sl.num = Len(es)
    /\ \A j \in 1..Len(es) :
           /\ slGet(N, sl, Probe(es[j].k)) = [entry |-> es[j], found |-> TRUE]
           /\ GetWithPosition(N, sl, Probe(es[j].k))
                  = [entry |-> es[j], pos |-> j - 1, found |-> TRUE]
           /\ ByPosition(N, sl, j - 1) = [entry |-> es[j], found |-> TRUE]
    /\ \A k \in SkipKeys :
           (\A j \in 1..Len(es) : es[j].k # k) => ~slGet(N, sl, Probe(k)).found
    /\ ~ByPosition(N, sl, Len(es)).found

\* every stored width, at a level with a forward pointer, is the level-0
\* distance to the forward node
WidthsRight(N, sl) ==
    LET ch == ChainOf(N, sl)
    IN \A j \in 1..Len(ch) : \A i \in 1..Len(N[ch[j]].forward) :
           N[ch[j]].forward[i] # Nil =>
               /\ N[ch[j]].forward[i] \in Range(ch)
               /\ N[ch[j]].widths[i] = IndexIn(ch, N[ch[j]].forward[i]) - j

\* ------------------------------------------------------------------------
\* v2/queue: waiters and items
\* ------------------------------------------------------------------------
\* waiters.get that pops the newest sema
waitersGetNewest(w) == IF Len(w) = 0 THEN [sema |-> 0, rest |-> w]
                       ELSE [sema |-> w[Len(w)], rest |-> SubSeq(w, 1, Len(w) - 1)]

\* waiters.get: pops the oldest sema
waitersGet(w) == IF Len(w) = 0 THEN [sema |-> 0, rest |-> w]
                 ELSE [sema |-> Head(w), rest |-> Tail(w)]

waitersPut(w, s) == Append(w, s)

\* waiters.remove that forgets to drop the sema
waitersRemoveKeeps(w, s) == w

waitersRemove(w, s) == SelectSeq(w, LAMBDA x : x # s)

\* items.get that returns the items without reslicing the buffer
itemsGetKeeps(its, number) ==
    LET k == Min(number, Len(its))
    IN [ret |-> SubSeq(its, 1, k), rest |-> its]

\* items.get that takes from the tail of the buffer
itemsGetTail(its, number) ==
    LET k == Min(number, Len(its))
    IN [ret |-> SubSeq(its, Len(its) - k + 1, Len(its)), rest |-> SubSeq(its, 1, Len(its) - k)]

\* items.get(number): the first min(number, len) items, removed from the buffer
itemsGet(its, number) ==
    LET k == Min(number, Len(its))
    IN [ret |-> SubSeq(its, 1, k), rest |-> SubSeq(its, k + 1, Len(its))]

RECURSIVE PrefixLen(_, _, _)
PrefixLen(its, checker, i) ==
    IF i > Len(its) \/ ~checker[its[i]] THEN i - 1 ELSE PrefixLen(its, checker, i + 1)

\* a getUntil that returns every item the checker accepts
itemsGetUntilAll(its, checker) ==
    [ret |-> SelectSeq(its, LAMBDA x : checker[x]),
     rest |-> SelectSeq(its, LAMBDA x : ~checker[x])]

\* items.getUntil(checker); checker[item] is what checker(item) returns
itemsGetUntil(its, checker) ==
    LET k == PrefixLen(its, checker, 1)
    IN [ret |-> SubSeq(its, 1, k), rest |-> SubSeq(its, k + 1, Len(its))]

\* the checkers TakeUntil is called with, and the checker item <= t; 0 is
\* the zero value ExecuteInParallel leaves in the slots it has handled
Checkers == [0..MaxItems -> BOOLEAN]
UpTo(t) == [x \in 0..MaxItems |-> x <= t]

NoResult == [items |-> <<>>, err |-> "none"]

\* what Peek (item, error) or TakeUntil (error; its items are in tookLog) returned
AdminResult(op, item, err) == [op |-> op, item |-> item, err |-> err]

\* goroutines started by ExecuteInParallel: numCPU is 1..MaxWorkers
Workers == 1..MaxWorkers

\* no ExecuteInParallel in progress: idx[w] is the index worker w holds (-1: none),
\* left the WaitGroup counter, had the items the call found in q.items, fn the
\* items it handed to fn, calls the calls returned
NoExec == [pc |-> "idle", todo |-> 0, done |-> -1, n |-> 0,
           idx |-> [w \in Workers |-> -1], left |-> 0, had |-> <<>>, fn |-> <<>>,
           calls |-> 0]

QInit ==
    /\ qItems = <<>>
    /\ qWaiters = <<>>
    /\ qLock = NoLock
    /\ qDisposed = FALSE
    /\ ready = <<>>
    /\ response = <<>>
    /\ ppc = [p \in Producers |-> "idle"]
    /\ pcur = [p \in Producers |-> 0]
    /\ pres = [p \in Producers |-> "none"]
    /\ cpc = [c \in Consumers |-> "idle"]
    /\ csema = [c \in Consumers |-> 0]
    /\ cnum = [c \in Consumers |-> 0]
    /\ ctimed = [c \in Consumers |-> FALSE]
    /\ cres = [c \in Consumers |-> NoResult]
    /\ cpath = [c \in Consumers |-> "none"]
    /\ putLog = <<>>
    /\ gotLog = [c \in Consumers |-> <<>>]
    /\ tookLog = <<>>
    /\ dispLog = <<>>
    /\ nPolls = 0
    /\ ares = AdminResult("none", 0, "none")
    /\ exec = NoExec

\* the queue as left by New, with no call made
QIdle == QInit

\* Queue.Put with no items: returns nil without taking the lock
PutEmpty(p) ==
    /\ UNCHANGED nonQCall
    /\ ppc[p] = "idle"
    /\ pres' = [pres EXCEPT ![p] = "nil"]
    /\ UNCHANGED <<qItems, qWaiters, qLock, qDisposed, ready, response, ppc, pcur, cpc,
                   csema, cnum, ctimed, cres, cpath, putLog, gotLog, tookLog, dispLog,
                   nPolls>>

\* Queue.Put: lock, disposed check, append
PutBegin(p, k) ==
    /\ UNCHANGED nonQCall
    /\ ppc[p] = "idle"
    /\ qLock = NoLock
    /\ Len(putLog) + k <= MaxItems
    /\ LET new == [i \in 1..k |-> Len(putLog) + i]
       IN IF qDisposed
          THEN /\ pres' = [pres EXCEPT ![p] = "ErrDisposed"]
               /\ UNCHANGED <<qItems, qLock, ppc, putLog>>
          ELSE /\ qItems' = qItems \o new
               /\ putLog' = putLog \o new
               /\ qLock' = p
               /\ ppc' = [ppc EXCEPT ![p] = "loop"]
               /\ pres' = [pres EXCEPT ![p] = "none"]
    /\ UNCHANGED <<qWaiters, qDisposed, ready, response, pcur, cpc, csema, cnum, ctimed,
                   cres, cpath, gotLog, tookLog, dispLog, nPolls>>

\* Put's return: unlock and report nil
PutReturn(p) ==
    /\ qLock' = NoLock
    /\ ppc' = [ppc EXCEPT ![p] = "idle"]
    /\ pres' = [pres EXCEPT ![p] = "nil"]
    /\ pcur' = [pcur EXCEPT ![p] = 0]

\* Put's loop leaving after the first waiter whatever the buffer holds
PutAfterWaiterBreaks(p, s) == PutReturn(p)

\* after a waiter was served or skipped: stop when the buffer is drained
PutAfterWaiter(p, s) ==
    IF Len(qItems) = 0
    THEN PutReturn(p)
    ELSE /\ ppc' = [ppc EXCEPT ![p] = "loop"]
         /\ pcur' = [pcur EXCEPT ![p] = 0]
         /\ UNCHANGED <<qLock, pres>>

\* Put's select as a blocking hand-off: it waits for the waiter's answer even
\* when the ready slot was already full
PutSignalAlwaysWaits(p, s) ==
    /\ ready' = [ready EXCEPT ![s] = 1]
    /\ ppc' = [ppc EXCEPT ![p] = "wait"]
    /\ pcur' = [pcur EXCEPT ![p] = s]
    /\ UNCHANGED <<qLock, pres>>

\* the select in Put's loop: a non-blocking send on sema.ready
PutSignal(p, s) ==
    IF ready[s] = 0
    THEN /\ ready' = [ready EXCEPT ![s] = 1]
         /\ ppc' = [ppc EXCEPT ![p] = "wait"]
         /\ pcur' = [pcur EXCEPT ![p] = s]
         /\ UNCHANGED <<qLock, pres>>
    ELSE /\ UNCHANGED ready
         /\ PutAfterWaiter(p, s)

\* one iteration of Put's for loop up to the select
PutLoop(p) ==
    /\ UNCHANGED nonQCall
    /\ ppc[p] = "loop"
    /\ LET g == waitersGet(qWaiters)
       IN /\ qWaiters' = g.rest
          /\ IF g.sema = 0
             THEN /\ PutReturn(p)
                  /\ UNCHANGED <<ready, response>>
             ELSE /\ response' = [response EXCEPT ![g.sema] = @ + 1]
                  /\ PutSignal(p, g.sema)
    /\ UNCHANGED <<qItems, qDisposed, cpc, csema, cnum, ctimed, cres, cpath, putLog,
                   gotLog, tookLog, dispLog, nPolls>>

\* a Put that does not wait for the waiter's answer
PutWaitNoAnswer(p) ==
    /\ UNCHANGED nonQCall
    /\ ppc[p] = "wait"
    /\ PutAfterWaiter(p, pcur[p])
    /\ UNCHANGED <<qItems, qWaiters, qDisposed, ready, response, cpc, csema, cnum,
                   ctimed, cres, cpath, putLog, gotLog, tookLog, dispLog, nPolls>>

\* sema.response.Wait() returns once the counter is zero
PutWait(p) ==
    /\ UNCHANGED nonQCall
    /\ ppc[p] = "wait"
    /\ response[pcur[p]] = 0
    /\ PutAfterWaiter(p, pcur[p])
    /\ UNCHANGED <<qItems, qWaiters, qDisposed, ready, response, cpc, csema, cnum,
                   ctimed, cres, cpath, putLog, gotLog, tookLog, dispLog, nPolls>>

\* Queue.Poll with number < 1
PollNone(c) ==
    /\ UNCHANGED nonQCall
    /\ cpc[c] = "idle"
    /\ nPolls < MaxPolls
    /\ nPolls' = nPolls + 1
    /\ cres' = [cres EXCEPT ![c] = [items |-> <<>>, err |-> "nil"]]
    /\ cpath' = [cpath EXCEPT ![c] = "none"]
    /\ UNCHANGED <<qItems, qWaiters, qLock, qDisposed, ready, response, ppc, pcur, pres,
                   cpc, csema, cnum, ctimed, putLog, gotLog, tookLog, dispLog>>

\* Queue.Poll(number, timeout) up to the select (Get is Poll with timeout 0)
PollBegin(c, number, timed) ==
    /\ UNCHANGED nonQCall
    /\ cpc[c] = "idle"
    /\ qLock = NoLock
    /\ nPolls < MaxPolls
    /\ nPolls' = nPolls + 1
    /\ IF qDisposed
       THEN /\ cres' = [cres EXCEPT ![c] = [items |-> <<>>, err |-> "Disposed"]]
            /\ cpath' = [cpath EXCEPT ![c] = "direct"]
            /\ UNCHANGED <<qItems, qWaiters, ready, response, cpc, csema, cnum, ctimed,
                           gotLog>>
       ELSE IF Len(qItems) = 0
       THEN LET s == Len(ready) + 1
            IN /\ ready' = Append(ready, 0)
               /\ response' = Append(response, 0)
               /\ qWaiters' = waitersPut(qWaiters, s)
               /\ csema' = [csema EXCEPT ![c] = s]
               /\ cpc' = [cpc EXCEPT ![c] = "parked"]
               /\ cnum' = [cnum EXCEPT ![c] = number]
               /\ ctimed' = [ctimed EXCEPT ![c] = timed]
               /\ cres' = [cres EXCEPT ![c] = NoResult]
               /\ cpath' = [cpath EXCEPT ![c] = "none"]
               /\ UNCHANGED <<qItems, gotLog>>
       ELSE LET g == itemsGet(qItems, number)
            IN /\ qItems' = g.rest
               /\ cres' = [cres EXCEPT ![c] = [items |-> g.ret, err |-> "nil"]]
               /\ gotLog' = [gotLog EXCEPT ![c] = @ \o g.ret]
               /\ cpath' = [cpath EXCEPT ![c] = "direct"]
               /\ UNCHANGED <<qWaiters, ready, response, cpc, csema, cnum, ctimed>>
    /\ UNCHANGED <<qLock, qDisposed, ppc, pcur, pres, putLog, tookLog, dispLog>>

\* Poll's return after parking: the call's locals go out of scope
PollReturn(c) ==
    /\ cpc' = [cpc EXCEPT ![c] = "idle"]
    /\ csema' = [csema EXCEPT ![c] = 0]
    /\ cnum' = [cnum EXCEPT ![c] = 0]
    /\ ctimed' = [ctimed EXCEPT ![c] = FALSE]

\* select: case <-sema.ready
PollReady(c) ==
    /\ UNCHANGED nonQCall
    /\ cpc[c] = "parked"
    /\ ready[csema[c]] = 1
    /\ ready' = [ready EXCEPT ![csema[c]] = 0]
    /\ cpc' = [cpc EXCEPT ![c] = "woken"]
    /\ UNCHANGED <<qItems, qWaiters, qLock, qDisposed, response, ppc, pcur, pres, csema,
                   cnum, ctimed, cres, cpath, putLog, gotLog, tookLog, dispLog, nPolls>>

\* a ready case that takes the items and returns without response.Done
PollTakeSilent(c) ==
    /\ UNCHANGED nonQCall
    /\ cpc[c] = "woken"
    /\ PollReturn(c)
    /\ cpath' = [cpath EXCEPT ![c] = "ready"]
    /\ IF qDisposed
       THEN /\ cres' = [cres EXCEPT ![c] = [items |-> <<>>, err |-> "Disposed"]]
            /\ UNCHANGED <<qItems, gotLog>>
       ELSE LET g == itemsGet(qItems, cnum[c])
            IN /\ qItems' = g.rest
               /\ cres' = [cres EXCEPT ![c] = [items |-> g.ret, err |-> "nil"]]
               /\ gotLog' = [gotLog EXCEPT ![c] = @ \o g.ret]
    /\ UNCHANGED <<qWaiters, qLock, qDisposed, ready, response, ppc, pcur, pres, putLog,
                   tookLog, dispLog, nPolls>>

\* the body of the ready case: disposed check, items.get, response.Done
PollTake(c) ==
    /\ UNCHANGED nonQCall
    /\ cpc[c] = "woken"
    /\ PollReturn(c)
    /\ cpath' = [cpath EXCEPT ![c] = "ready"]
    /\ IF qDisposed
       THEN /\ cres' = [cres EXCEPT ![c] = [items |-> <<>>, err |-> "Disposed"]]
            /\ UNCHANGED <<qItems, response, gotLog>>
       ELSE LET g == itemsGet(qItems, cnum[c])
            IN /\ qItems' = g.rest
               /\ cres' = [cres EXCEPT ![c] = [items |-> g.ret, err |-> "nil"]]
               /\ gotLog' = [gotLog EXCEPT ![c] = @ \o g.ret]
               /\ response' = [response EXCEPT ![csema[c]] = @ - 1]
    /\ UNCHANGED <<qWaiters, qLock, qDisposed, ready, ppc, pcur, pres, putLog, tookLog,
                   dispLog, nPolls>>

\* select: case <-timeoutC (the timer may fire at any moment, also when ready is full)
PollTimeout(c) ==
    /\ UNCHANGED nonQCall
    /\ cpc[c] = "parked"
    /\ ctimed[c]
    /\ cpc' = [cpc EXCEPT ![c] = "timedout"]
    /\ UNCHANGED <<qItems, qWaiters, qLock, qDisposed, ready, response, ppc, pcur, pres,
                   csema, cnum, ctimed, cres, cpath, putLog, gotLog, tookLog, dispLog,
                   nPolls>>

\* the inner select of the timeout case: reclaim the own ready slot, or Done
PollReclaim(c) ==
    /\ UNCHANGED nonQCall
    /\ cpc[c] = "timedout"
    /\ IF ready[csema[c]] = 0
       THEN /\ ready' = [ready EXCEPT ![csema[c]] = 1]
            /\ cpc' = [cpc EXCEPT ![c] = "reclaimed"]
            /\ UNCHANGED <<response, cres, cpath, csema, cnum, ctimed>>
       ELSE /\ response' = [response EXCEPT ![csema[c]] = @ - 1]
            /\ PollReturn(c)
            /\ cres' = [cres EXCEPT ![c] = [items |-> <<>>, err |-> "Timeout"]]
            /\ cpath' = [cpath EXCEPT ![c] = "declined"]
            /\ UNCHANGED ready
    /\ UNCHANGED <<qItems, qWaiters, qLock, qDisposed, ppc, pcur, pres, putLog, gotLog,
                   tookLog, dispLog, nPolls>>

\* the reclaim branch returning ErrTimeout with its sema left on the waiter list
PollRemoveKeepsWaiter(c) ==
    /\ UNCHANGED nonQCall
    /\ cpc[c] = "reclaimed"
    /\ qLock = NoLock
    /\ PollReturn(c)
    /\ cres' = [cres EXCEPT ![c] = [items |-> <<>>, err |-> "Timeout"]]
    /\ cpath' = [cpath EXCEPT ![c] = "reclaim"]
    /\ UNCHANGED <<qItems, qWaiters, qLock, qDisposed, ready, response, ppc, pcur, pres,
                   putLog, gotLog, tookLog, dispLog, nPolls>>

\* after a successful reclaim: lock, waiters.remove, unlock, return ErrTimeout
PollRemove(c) ==
    /\ UNCHANGED nonQCall
    /\ cpc[c] = "reclaimed"
    /\ qLock = NoLock
    /\ qWaiters' = waitersRemove(qWaiters, csema[c])
    /\ PollReturn(c)
    /\ cres' = [cres EXCEPT ![c] = [items |-> <<>>, err |-> "Timeout"]]
    /\ cpath' = [cpath EXCEPT ![c] = "reclaim"]
    /\ UNCHANGED <<qItems, qLock, qDisposed, ready, response, ppc, pcur, pres, putLog,
                   gotLog, tookLog, dispLog, nPolls>>

\* Queue.TakeUntil(checker)
TakeUntil(checker) ==
    /\ UNCHANGED <<nonQ, exec>>
    /\ qLock = NoLock
    /\ IF qDisposed
       THEN /\ ares' = AdminResult("TakeUntil", 0, "Disposed")
            /\ UNCHANGED <<qItems, tookLog>>
       ELSE LET g == itemsGetUntil(qItems, checker)
            IN /\ qItems' = g.rest
               /\ tookLog' = tookLog \o g.ret
               /\ ares' = AdminResult("TakeUntil", 0, "nil")
    /\ UNCHANGED <<qWaiters, qLock, qDisposed, ready, response, ppc, pcur, pres, cpc,
                   csema, cnum, ctimed, cres, cpath, putLog, gotLog, dispLog, nPolls>>

\* the non-blocking sends of Dispose's loop over q.waiters
\* Dispose that marks the queue disposed without signalling the waiters
DisposeReadySilent(r, w) == r

RECURSIVE DisposeReady(_, _)
DisposeReady(r, w) ==
    IF w = <<>> THEN r
    ELSE DisposeReady([r EXCEPT ![Head(w)] = 1], Tail(w))

RECURSIVE DisposeResponse(_, _)
DisposeResponse(r, w) ==
    IF w = <<>> THEN r
    ELSE DisposeResponse([r EXCEPT ![Head(w)] = @ + 1], Tail(w))

\* Queue.Dispose that marks the queue disposed and leaves the buffer in place
DisposeKeepsItems ==
    /\ UNCHANGED nonQCall
    /\ qLock = NoLock
    /\ ~qDisposed
    /\ qDisposed' = TRUE
    /\ response' = DisposeResponse(response, qWaiters)
    /\ ready' = DisposeReady(ready, qWaiters)
    /\ dispLog' = dispLog \o qItems
    /\ qWaiters' = <<>>
    /\ UNCHANGED <<qItems, qLock, ppc, pcur, pres, cpc, csema, cnum, ctimed, cres, cpath,
                   putLog, gotLog, tookLog, nPolls>>

\* Queue.Dispose
Dispose ==
    /\ UNCHANGED nonQCall
    /\ qLock = NoLock
    /\ ~qDisposed
    /\ qDisposed' = TRUE
    /\ response' = DisposeResponse(response, qWaiters)
    /\ ready' = DisposeReady(ready, qWaiters)
    /\ dispLog' = dispLog \o qItems
    /\ qItems' = <<>>
    /\ qWaiters' = <<>>
    /\ UNCHANGED <<qLock, ppc, pcur, pres, cpc, csema, cnum, ctimed, cres, cpath, putLog,
                   gotLog, tookLog, nPolls>>

\* a peek that returns the newest item
itemsPeekLast(its) == IF Len(its) = 0 THEN [item |-> 0, ok |-> FALSE]
                      ELSE [item |-> its[Len(its)], ok |-> TRUE]

\* items.peek: (first item, ok)
itemsPeek(its) == IF Len(its) = 0 THEN [item |-> 0, ok |-> FALSE]
                  ELSE [item |-> its[1], ok |-> TRUE]

\* Queue.Peek
Peek ==
    /\ UNCHANGED <<nonQ, exec>>
    /\ qLock = NoLock
    /\ ares' = IF qDisposed THEN AdminResult("Peek", 0, "Disposed")
               ELSE LET pk == itemsPeek(qItems)
                    IN IF pk.ok THEN AdminResult("Peek", pk.item, "nil")
                       ELSE AdminResult("Peek", 0, "EmptyQueue")
    /\ UNCHANGED <<qItems, qWaiters, qLock, qDisposed, ready, response, ppc, pcur, pres,
                   cpc, csema, cnum, ctimed, cres, cpath, putLog, gotLog, tookLog, dispLog,
                   nPolls>>

\* Queue.Disposed
Disposed == qDisposed

\* what the steps of ExecuteInParallel leave alone
ExecFrame == <<qWaiters, qDisposed, ready, response, ppc, pcur, pres, cpc, csema, cnum,
               ctimed, cres, cpath, putLog, gotLog, tookLog, dispLog, nPolls, ares>>

\* ExecuteInParallel up to the start of the workers: with nothing to do it
\* unlocks and returns, else it keeps the lock and starts numCPU goroutines
ExecBegin(numCPU) ==
    /\ UNCHANGED nonQ
    /\ exec.pc = "idle"
    /\ exec.calls < MaxExec
    /\ qLock = NoLock
    /\ IF Len(qItems) = 0
       THEN /\ exec' = [exec EXCEPT !.calls = @ + 1, !.had = <<>>, !.fn = <<>>]
            /\ UNCHANGED qLock
       ELSE /\ qLock' = Admin
            /\ exec' = [exec EXCEPT !.pc = "work", !.todo = Len(qItems), !.done = -1,
                                     !.n = numCPU, !.left = numCPU, !.had = qItems,
                                     !.fn = <<>>]
    /\ UNCHANGED <<qItems, ExecFrame>>

\* a counter that advances by two on every claim
ExecClaimSkips(w) ==
    /\ UNCHANGED nonQ
    /\ exec.pc = "work"
    /\ w <= exec.n
    /\ exec.idx[w] = -1
    /\ LET index == exec.done + 2
       IN IF index >= exec.todo
          THEN exec' = [exec EXCEPT !.done = index, !.idx[w] = -2, !.left = @ - 1]
          ELSE exec' = [exec EXCEPT !.done = index, !.idx[w] = index]
    /\ UNCHANGED <<qItems, qLock, ExecFrame>>

\* a worker's atomic.AddInt64(&done, 1): it leaves when the index is past todo
ExecClaim(w) ==
    /\ UNCHANGED nonQ
    /\ exec.pc = "work"
    /\ w <= exec.n
    /\ exec.idx[w] = -1
    /\ LET index == exec.done + 1
       IN IF index >= exec.todo
          THEN exec' = [exec EXCEPT !.done = index, !.idx[w] = -2, !.left = @ - 1]
          ELSE exec' = [exec EXCEPT !.done = index, !.idx[w] = index]
    /\ UNCHANGED <<qItems, qLock, ExecFrame>>

\* a worker's fn(items[index]); items[index] = zero, on the array q.items shares
ExecCall(w) ==
    /\ UNCHANGED nonQ
    /\ exec.pc = "work"
    /\ exec.idx[w] >= 0
    /\ exec' = [exec EXCEPT !.fn = Append(@, qItems[exec.idx[w] + 1]), !.idx[w] = -1]
    /\ qItems' = [qItems EXCEPT ![exec.idx[w] + 1] = 0]
    /\ UNCHANGED <<qLock, ExecFrame>>

\* wg.Wait() has returned: unlock
ExecUnlock ==
    /\ UNCHANGED nonQ
    /\ exec.pc = "work"
    /\ exec.left = 0
    /\ qLock' = NoLock
    /\ exec' = [exec EXCEPT !.pc = "unlocked"]
    /\ UNCHANGED <<qItems, ExecFrame>>

\* the closing q.Dispose(), whose result is dropped, and the return
ExecDispose ==
    /\ UNCHANGED nonQ
    /\ exec.pc = "unlocked"
    /\ qLock = NoLock
    /\ qDisposed' = TRUE
    /\ response' = DisposeResponse(response, qWaiters)
    /\ ready' = DisposeReady(ready, qWaiters)
    /\ qItems' = <<>>
    /\ qWaiters' = <<>>
    /\ exec' = [exec EXCEPT !.pc = "idle", !.idx = [w \in Workers |-> -1],
                             !.calls = @ + 1]
    /\ UNCHANGED <<qLock, ppc, pcur, pres, cpc, csema, cnum, ctimed, cres, cpath, putLog,
                   gotLog, tookLog, dispLog, nPolls, ares>>

QNext ==
    \/ \E p \in Producers : PutEmpty(p)
    \/ \E p \in Producers, k \in 1..MaxPutLen : PutBegin(p, k)
    \/ \E p \in Producers : PutLoop(p)
    \/ \E p \in Producers : PutWait(p)
    \/ \E c \in Consumers : PollNone(c)
    \/ \E c \in Consumers, n \in 1..MaxGetNum, t \in BOOLEAN : PollBegin(c, n, t)
    \/ \E c \in Consumers : PollReady(c)
    \/ \E c \in Consumers : PollTake(c)
    \/ \E c \in Consumers : PollTimeout(c)
    \/ \E c \in Consumers : PollReclaim(c)
    \/ \E c \in Consumers : PollRemove(c)
    \/ \E t \in 1..MaxItems : TakeUntil(UpTo(t))
    \/ Dispose

\* the queue's calls and Peek
QPeekNext ==
    \/ QNext
    \/ Peek

\* the queue's calls, TakeUntil with any checker
QTakeNext ==
    \/ QNext
    \/ \E checker \in Checkers : TakeUntil(checker)

\* the queue's calls and ExecuteInParallel
QExecNext ==
    \/ QNext
    \/ \E numCPU \in Workers : ExecBegin(numCPU)
    \/ \E w \in Workers : ExecClaim(w)
    \/ \E w \in Workers : ExecCall(w)
    \/ ExecUnlock
    \/ ExecDispose

\* ------------------------------------------------------------------------
\* v2/queue: PriorityQueue
\* ------------------------------------------------------------------------
\* the goroutines calling Put, Get and Dispose
PqProducers == {11}
PqGetters == {12, 13}
PqAdmin == 14

\* the items are their priorities
Priorities == 1..MaxPri

\* PriorityItem.Compare
priorityCompare(p, other) == IF p < other THEN -1 ELSE IF p > other THEN 1 ELSE 0

\* Go's integer division by two, which truncates toward zero
half(x) == IF x < 0 THEN 0 - ((0 - x) \div 2) ELSE x \div 2

\* priorityItems.swap; the slice is indexed from 0
swap(items, i, j) == [items EXCEPT ![i + 1] = items[j + 1], ![j + 1] = items[i + 1]]

\* a pop whose item always sinks to the left
RECURSIVE popSinkLeft(_, _)
popSinkLeft(items, index) ==
    LET child == 2 * index + 1
    IN IF Len(items) > child /\ priorityCompare(items[child + 1], items[index + 1]) < 0
       THEN popSinkLeft(swap(items, index, child), child)
       ELSE items

\* the loop of priorityItems.pop: the item at index sinks below its smaller child
RECURSIVE popSink(_, _)
popSink(items, index) ==
    LET childL == 2 * index + 1
        childR == 2 * index + 2
    IN IF Len(items) > childL
       THEN LET child == IF /\ Len(items) > childR
                            /\ priorityCompare(items[childR + 1], items[childL + 1]) < 0
                         THEN childR ELSE childL
            IN IF priorityCompare(items[child + 1], items[index + 1]) < 0
               THEN popSink(swap(items, index, child), child)
               ELSE items
       ELSE items

\* priorityItems.pop on a slice that is not empty: the root is returned, the
\* last item takes its place and sinks
pop(items) ==
    LET size == Len(items)
        swapped == swap(items, size - 1, 0)
    IN [item |-> swapped[size], items |-> popSink(SubSeq(swapped, 1, size - 1), 0)]

\* priorityItems.get
RECURSIVE priorityGet(_, _, _)
priorityGet(items, number, returnItems) ==
    IF number = 0 \/ Len(items) = 0
    THEN [out |-> returnItems, items |-> items]
    ELSE LET r == pop(items)
         IN priorityGet(r.items, number - 1, Append(returnItems, r.item))

\* the loop of priorityItems.push: the new item rises above its larger parent
RECURSIVE pushRise(_, _, _)
pushRise(items, index, item) ==
    LET parent == half(index - 1)
    IN IF parent >= 0 /\ priorityCompare(items[parent + 1], item) > 0
       THEN pushRise(swap(items, index, parent), parent, item)
       ELSE items

\* priorityItems.push
push(items, item) == pushRise(Append(items, item), Len(items), item)

\* the range loop of PriorityQueue.Put
RECURSIVE pushAll(_, _)
pushAll(items, new) ==
    IF new = <<>> THEN items ELSE pushAll(push(items, Head(new)), Tail(new))

\* a goroutine that is in no call: sema is the sema it waits on or signals, num the
\* number argument of its Get (kept when the Get returns), items and err
\* what its last call returned, call the serial number of its last Get
PqIdleProc == [pc |-> "idle", sema |-> 0, num |-> 0, items |-> <<>>, err |-> "none",
               call |-> 0]

\* NewPriorityQueue(hint, allowDuplicates)
PInit ==
    /\ pqItems = <<>>
    /\ pqWaiters = <<>>
    /\ pqLock = NoLock
    /\ pqDisposeLock = NoLock
    /\ pqDisposed = FALSE
    /\ pqAllowDuplicates \in BOOLEAN
    /\ pqReady = <<>>
    /\ pqResponse = <<>>
    /\ pqProc = [x \in PqProducers \cup PqGetters \cup {PqAdmin} |-> PqIdleProc]
    /\ pqCalls = [put |-> 0, get |-> 0, dispose |-> 0]

\* a priority queue with no call made
PIdle ==
    /\ pqItems = <<>>
    /\ pqWaiters = <<>>
    /\ pqLock = NoLock
    /\ pqDisposeLock = NoLock
    /\ pqDisposed = FALSE
    /\ pqAllowDuplicates = TRUE
    /\ pqReady = <<>>
    /\ pqResponse = <<>>
    /\ pqProc = [x \in PqProducers \cup PqGetters \cup {PqAdmin} |-> PqIdleProc]
    /\ pqCalls = [put |-> 0, get |-> 0, dispose |-> 0]

\* a call's return
PqReturn(x, items, err) ==
    [pqProc EXCEPT ![x] = [pc |-> "idle", sema |-> 0, num |-> 0, items |-> items,
                           err |-> err, call |-> pqProc[x].call]]

\* PriorityQueue.Put with no items
PqPutEmpty(p) ==
    /\ UNCHANGED nonP
    /\ pqProc[p].pc = "idle"
    /\ pqProc' = PqReturn(p, <<>>, "nil")
    /\ UNCHANGED <<pqItems, pqWaiters, pqLock, pqDisposeLock, pqDisposed,
                   pqAllowDuplicates, pqReady, pqResponse, pqCalls>>

\* PriorityQueue.Put: lock, disposed check, push of every item
PqPutBegin(p, items) ==
    /\ UNCHANGED nonP
    /\ pqProc[p].pc = "idle"
    /\ items # <<>>
    /\ pqCalls.put + Len(items) <= MaxPqItems
    /\ pqLock = NoLock
    /\ pqCalls' = [pqCalls EXCEPT !.put = @ + Len(items)]
    /\ IF pqDisposed
       THEN /\ pqProc' = PqReturn(p, <<>>, "Disposed")
            /\ UNCHANGED <<pqItems, pqLock>>
       ELSE /\ pqItems' = pushAll(pqItems, items)
            /\ pqLock' = p
            /\ pqProc' = [pqProc EXCEPT ![p].pc = "loop"]
    /\ UNCHANGED <<pqWaiters, pqDisposeLock, pqDisposed, pqAllowDuplicates, pqReady,
                   pqResponse>>

\* the head of Put's loop: waiters.get(); with no waiter Put returns, else it
\* adds one to the waiter's response and sends on its ready channel
PqPutLoop(p) ==
    /\ UNCHANGED nonP
    /\ pqProc[p].pc = "loop"
    /\ IF pqWaiters = <<>>
       THEN /\ pqProc' = PqReturn(p, <<>>, "nil")
            /\ pqLock' = NoLock
            /\ UNCHANGED <<pqWaiters, pqReady, pqResponse>>
       ELSE \E r \in {waitersGet(pqWaiters)} :
              /\ ~pqReady[r.sema]
              /\ pqWaiters' = r.rest
              /\ pqResponse' = [pqResponse EXCEPT ![r.sema] = @ + 1]
              /\ pqReady' = [pqReady EXCEPT ![r.sema] = TRUE]
              /\ pqProc' = [pqProc EXCEPT ![p].pc = "wait", ![p].sema = r.sema]
              /\ UNCHANGED pqLock
    /\ UNCHANGED <<pqItems, pqDisposeLock, pqDisposed, pqAllowDuplicates, pqCalls>>

\* sema.response.Wait() has returned: Put leaves the loop when no item is left
PqPutWait(p) ==
    /\ UNCHANGED nonP
    /\ pqProc[p].pc = "wait"
    /\ pqResponse[pqProc[p].sema] = 0
    /\ IF Len(pqItems) = 0
       THEN /\ pqProc' = PqReturn(p, <<>>, "nil")
            /\ pqLock' = NoLock
       ELSE /\ pqProc' = [pqProc EXCEPT ![p].pc = "loop", ![p].sema = 0]
            /\ UNCHANGED pqLock
    /\ UNCHANGED <<pqItems, pqWaiters, pqDisposeLock, pqDisposed, pqAllowDuplicates,
                   pqReady, pqResponse, pqCalls>>

\* PriorityQueue.Get with number < 1
PqGetNone(c) ==
    /\ UNCHANGED nonP
    /\ pqProc[c].pc = "idle"
    /\ pqCalls.get < MaxPqGets
    /\ pqCalls' = [pqCalls EXCEPT !.get = @ + 1]
    /\ pqProc' = [PqReturn(c, <<>>, "nil") EXCEPT ![c].call = pqCalls.get + 1]
    /\ UNCHANGED <<pqItems, pqWaiters, pqLock, pqDisposeLock, pqDisposed,
                   pqAllowDuplicates, pqReady, pqResponse>>

\* PriorityQueue.Get up to its return or to the receive on sema.ready
PqGetBegin(c, number) ==
    /\ UNCHANGED nonP
    /\ pqProc[c].pc = "idle"
    /\ pqCalls.get < MaxPqGets
    /\ pqLock = NoLock
    /\ pqCalls' = [pqCalls EXCEPT !.get = @ + 1]
    /\ IF pqDisposed
       THEN /\ pqProc' = [PqReturn(c, <<>>, "Disposed") EXCEPT ![c].num = number,
                                                             ![c].call = pqCalls.get + 1]
            /\ UNCHANGED <<pqItems, pqWaiters, pqReady, pqResponse>>
       ELSE IF Len(pqItems) = 0
       THEN /\ pqReady' = Append(pqReady, FALSE)
            /\ pqResponse' = Append(pqResponse, 0)
            /\ pqWaiters' = waitersPut(pqWaiters, Len(pqReady) + 1)
            /\ pqProc' = [pqProc EXCEPT ![c].pc = "parked", ![c].num = number,
                                        ![c].sema = Len(pqReady) + 1,
                                        ![c].call = pqCalls.get + 1]
            /\ UNCHANGED pqItems
       ELSE \E r \in {priorityGet(pqItems, number, <<>>)} :
              /\ pqItems' = r.items
              /\ pqProc' = [PqReturn(c, r.out, "nil") EXCEPT ![c].num = number,
                                                            ![c].call = pqCalls.get + 1]
              /\ UNCHANGED <<pqWaiters, pqReady, pqResponse>>
    /\ UNCHANGED <<pqLock, pqDisposeLock, pqDisposed, pqAllowDuplicates>>

\* <-sema.ready
PqGetReady(c) ==
    /\ UNCHANGED nonP
    /\ pqProc[c].pc = "parked"
    /\ pqReady[pqProc[c].sema]
    /\ pqReady' = [pqReady EXCEPT ![pqProc[c].sema] = FALSE]
    /\ pqProc' = [pqProc EXCEPT ![c].pc = "woken"]
    /\ UNCHANGED <<pqItems, pqWaiters, pqLock, pqDisposeLock, pqDisposed,
                   pqAllowDuplicates, pqResponse, pqCalls>>

\* the woken Get: pq.Disposed() under the dispose lock, then either the
\* Disposed error or items.get(number) and response.Done()
PqGetTake(c) ==
    /\ UNCHANGED nonP
    /\ pqProc[c].pc = "woken"
    /\ pqDisposeLock = NoLock
    /\ IF pqDisposed
       THEN /\ pqProc' = [PqReturn(c, <<>>, "Disposed") EXCEPT ![c].num = pqProc[c].num]
            /\ UNCHANGED <<pqItems, pqResponse>>
       ELSE \E r \in {priorityGet(pqItems, pqProc[c].num, <<>>)} :
              /\ pqItems' = r.items
              /\ pqResponse' = [pqResponse EXCEPT ![pqProc[c].sema] = @ - 1]
              /\ pqProc' = [PqReturn(c, r.out, "nil") EXCEPT ![c].num = pqProc[c].num]
    /\ UNCHANGED <<pqWaiters, pqLock, pqDisposeLock, pqDisposed, pqAllowDuplicates,
                   pqReady, pqCalls>>

\* PriorityQueue.Dispose: both locks, disposed = true
PqDisposeBegin ==
    /\ UNCHANGED nonP
    /\ pqProc[PqAdmin].pc = "idle"
    /\ pqCalls.dispose < MaxPqDispose
    /\ pqLock = NoLock
    /\ pqDisposeLock = NoLock
    /\ pqCalls' = [pqCalls EXCEPT !.dispose = @ + 1]
    /\ pqLock' = PqAdmin
    /\ pqDisposeLock' = PqAdmin
    /\ pqDisposed' = TRUE
    /\ pqProc' = [pqProc EXCEPT ![PqAdmin].pc = "signal", ![PqAdmin].num = 1]
    /\ UNCHANGED <<pqItems, pqWaiters, pqAllowDuplicates, pqReady, pqResponse>>

\* a Dispose that wakes nobody
PqDisposeSignalNone ==
    /\ UNCHANGED nonP
    /\ pqProc[PqAdmin].pc = "signal"
    /\ pqProc[PqAdmin].num <= Len(pqWaiters)
    /\ pqProc' = [pqProc EXCEPT ![PqAdmin].num = @ + 1]
    /\ UNCHANGED <<pqItems, pqWaiters, pqLock, pqDisposeLock, pqDisposed,
                   pqAllowDuplicates, pqReady, pqResponse, pqCalls>>

\* one round of Dispose's loop over the waiters: response.Add(1) and a send on
\* the waiter's ready channel, which holds one value
PqDisposeSignal ==
    /\ UNCHANGED nonP
    /\ pqProc[PqAdmin].pc = "signal"
    /\ pqProc[PqAdmin].num <= Len(pqWaiters)
    /\ \E waiter \in {pqWaiters[pqProc[PqAdmin].num]} :
         /\ ~pqReady[waiter]
         /\ pqResponse' = [pqResponse EXCEPT ![waiter] = @ + 1]
         /\ pqReady' = [pqReady EXCEPT ![waiter] = TRUE]
    /\ pqProc' = [pqProc EXCEPT ![PqAdmin].num = @ + 1]
    /\ UNCHANGED <<pqItems, pqWaiters, pqLock, pqDisposeLock, pqDisposed,
                   pqAllowDuplicates, pqCalls>>

\* the end of Dispose: items and waiters dropped, both locks released
PqDisposeEnd ==
    /\ UNCHANGED nonP
    /\ pqProc[PqAdmin].pc = "signal"
    /\ pqProc[PqAdmin].num > Len(pqWaiters)
    /\ pqItems' = <<>>
    /\ pqWaiters' = <<>>
    /\ pqLock' = NoLock
    /\ pqDisposeLock' = NoLock
    /\ pqProc' = PqReturn(PqAdmin, <<>>, "nil")
    /\ UNCHANGED <<pqDisposed, pqAllowDuplicates, pqReady, pqResponse, pqCalls>>

\* PriorityQueue.Len
PqLen == Len(pqItems)

\* PriorityQueue.Disposed
PqDisposed == pqDisposed

PNext ==
    \/ \E p \in PqProducers : PqPutEmpty(p)
    \/ \E p \in PqProducers, items \in SeqsUpTo(Priorities, MaxPqPutLen) : PqPutBegin(p, items)
    \/ \E p \in PqProducers : PqPutLoop(p)
    \/ \E p \in PqProducers : PqPutWait(p)
    \/ \E c \in PqGetters : PqGetNone(c)
    \/ \E c \in PqGetters, number \in 1..MaxPqNum : PqGetBegin(c, number)
    \/ \E c \in PqGetters : PqGetReady(c)
    \/ \E c \in PqGetters : PqGetTake(c)
    \/ PqDisposeBegin
    \/ PqDisposeSignal
    \/ PqDisposeEnd

\* the same calls with every item of priority 1: the waiter protocol and
\* Dispose do not look at the items
PEqualNext ==
    \/ \E p \in PqProducers : PqPutEmpty(p)
    \/ \E p \in PqProducers, items \in SeqsUpTo({1}, MaxPqPutLen) : PqPutBegin(p, items)
    \/ \E p \in PqProducers : PqPutLoop(p)
    \/ \E p \in PqProducers : PqPutWait(p)
    \/ \E c \in PqGetters : PqGetNone(c)
    \/ \E c \in PqGetters, number \in 1..MaxPqNum : PqGetBegin(c, number)
    \/ \E c \in PqGetters : PqGetReady(c)
    \/ \E c \in PqGetters : PqGetTake(c)
    \/ PqDisposeBegin
    \/ PqDisposeSignal
    \/ PqDisposeEnd

\* the queue alone: the other structures stay idle
QStart == QInit /\ AIdle /\ SIdle /\ PIdle

SpecQ == QStart /\ [][QNext]_vars

\* The Go scheduler keeps running every goroutine that is not blocked on the lock,
\* on a channel or on the WaitGroup; the timer of a Poll need not ever fire.
QFairness ==
    /\ \A p \in Producers : WF_vars(PutLoop(p)) /\ WF_vars(PutWait(p))
    /\ \A c \in Consumers : /\ WF_vars(PollReady(c))
                             /\ WF_vars(PollTake(c))
                             /\ WF_vars(PollReclaim(c))
                             /\ WF_vars(PollRemove(c))

FairSpecQ == SpecQ /\ QFairness

\* the queue with Peek among its calls
SpecQPeek == QStart /\ [][QPeekNext]_vars

\* the queue with TakeUntil called with any checker
SpecQTake == QStart /\ [][QTakeNext]_vars

\* the queue with ExecuteInParallel among its calls
SpecQExec == QStart /\ [][QExecNext]_vars

\* time.After(timeout) delivers once the timeout has elapsed: the timeout arm of
\* a timed Poll's select does not stay ready for ever without being taken
TimerFairness == \A c \in Consumers : WF_vars(PollTimeout(c))

TimedSpecQ == FairSpecQ /\ TimerFairness

\* the tree alone: the queue stays as constructed
AStart == AInit /\ QIdle /\ SIdle /\ PIdle

SpecA == AStart /\ [][ANext]_vars

\* the skip lists alone
SStart == SInit /\ QIdle /\ AIdle /\ PIdle

SpecS == SStart /\ [][SNext]_vars

\* the skip list under Insert and Delete alone
SpecSOrdered == SStart /\ [][SOrderedNext]_vars

\* the skip list under Insert, Delete and SplitAt
SpecSSplit == SStart /\ [][SSortedSplitNext]_vars

\* the skip list under Insert and Delete, then iterated
SpecSIter == SStart /\ [][SIterNext]_vars

\* the skip list under Insert, Delete and SplitAt with any index
SpecSSplitAny == SStart /\ [][SSplitAnyNext]_vars

\* the skip list under Insert, Delete and ReplaceAtPosition
SpecSReplace == SStart /\ [][SReplaceNext]_vars

\* the priority queue alone
PStart == PInit /\ QIdle /\ AIdle /\ SIdle

SpecP == PStart /\ [][PNext]_vars

\* The Go scheduler keeps running every goroutine that is not blocked on a lock,
\* on a channel or on the WaitGroup.
PFairness ==
    /\ \A p \in PqProducers : WF_vars(PqPutLoop(p)) /\ WF_vars(PqPutWait(p))
    /\ \A c \in PqGetters : WF_vars(PqGetReady(c)) /\ WF_vars(PqGetTake(c))
    /\ WF_vars(PqDisposeSignal)
    /\ WF_vars(PqDisposeEnd)

FairSpecP == PStart /\ [][PEqualNext]_vars /\ PFairness

\* ------------------------------------------------------------------------
\* Queue properties
\* ------------------------------------------------------------------------
Delivered == ConcatAll(gotLog, Consumers) \o tookLog \o dispLog

\* C2: every item of an accepted Put is at every moment in exactly one place:
\* still in the buffer, or returned once by one Get/Poll/TakeUntil, or returned
\* by Dispose; nothing is lost and nothing is delivered twice.
QueueNoLossNoDup ==
    LET all == qItems \o Delivered
    IN /\ Len(all) = Len(putLog)
       /\ Range(all) = Range(putLog)
       /\ NoDup(all)

\* a Poll timed out while a producer was handing off to it, and another
\* consumer was handed items
QueueNoLossWitness ==
    /\ \E c \in Consumers : cpath[c] = "declined"
    /\ \E d \in Consumers : cpath[d] = "ready" /\ cres[d].items # <<>>

LiveParked(c) == cpc[c] = "parked" /\ csema[c] \in Range(qWaiters)

\* C3: while no Put or Dispose holds the lock and the queue is not disposed,
\* the buffer is never non-empty with a consumer, whose timeout has not fired,
\* still parked on the waiter list.
QueueNoLostWakeup ==
    (qLock = NoLock /\ ~qDisposed /\ qItems # <<>>) => \A c \in Consumers : ~LiveParked(c)

\* a Put has returned after handing items to a waiter, leaving items behind
QueueNoLostWakeupWitness ==
    /\ qLock = NoLock /\ ~qDisposed /\ qItems # <<>>
    /\ \E p \in Producers : pres[p] = "nil"
    /\ \E c \in Consumers : cpath[c] = "ready" /\ cres[c].items # <<>>

OnlyConsumer(c) ==
    /\ \A d \in Consumers \ {c} : gotLog[d] = <<>>
    /\ tookLog = <<>>

\* C5: when a single consumer takes items, the concatenation of the results of
\* its successive Get/Poll calls is a prefix of the concatenation of the Put
\* arguments in the order they were appended.
QueueFIFO ==
    \A c \in Consumers : OnlyConsumer(c) => IsPrefix(gotLog[c], putLog)

\* the single consumer was served from the buffer and, later, by a hand-off
QueueFIFOWitness ==
    \E c \in Consumers :
        /\ OnlyConsumer(c)
        /\ cpath[c] = "ready"
        /\ cres[c].items # <<>>
        /\ Len(gotLog[c]) > Len(cres[c].items)

\* C6: once the queue is disposed, every consumer still inside Get/Poll
\* eventually returns, with the Disposed error or its own Timeout.
QueueDisposeReleases ==
    \A c \in Consumers :
        (qDisposed /\ cpc[c] # "idle")
            ~> (cpc[c] = "idle" /\ cres[c].err \in {"Disposed", "Timeout"})

\* a parked consumer was woken by Dispose and returned the Disposed error
QueueDisposeWitness ==
    \E c \in Consumers : qDisposed /\ cpath[c] = "ready" /\ cres[c].err = "Disposed"

\* C7 as stated: Poll returns Timeout only when it reclaimed its ready slot.
QueueTimeoutOnlyAfterReclaim ==
    \A c \in Consumers : cres[c].err = "Timeout" => cpath[c] = "reclaim"

\* C7 amended: Poll returns Timeout only from its timeout arm and never with
\* items; after a successful reclaim its waiter is off the waiter list; when the
\* reclaim fails because a Put or Dispose already signalled it, Poll decrements
\* the response counter once, leaves the buffer alone and still returns Timeout.
QueueTimeoutArm ==
    [][\A c \in Consumers :
          (cpc[c] # "idle" /\ cpc'[c] = "idle" /\ cres'[c].err = "Timeout") =>
             /\ cpc[c] \in {"timedout", "reclaimed"}
             /\ cres'[c].items = <<>>
             /\ qItems' = qItems
             /\ gotLog' = gotLog
             /\ cpc[c] = "reclaimed" =>
                    /\ csema[c] \notin Range(qWaiters')
                    /\ response' = response
             /\ cpc[c] = "timedout" =>
                    /\ ready[csema[c]] = 1
                    /\ response' = [response EXCEPT ![csema[c]] = @ - 1]]_vars

\* a Poll returned Timeout although a producer had signalled it
QueueTimeoutArmWitness ==
    \E c \in Consumers : cres[c].err = "Timeout" /\ cpath[c] = "declined"

\* C12: under fair scheduling of every goroutine that is not blocked, a Put
\* that has taken the lock always returns nil and releases the lock, whatever
\* Get/Poll (with timers firing at any point), TakeUntil and Dispose do in
\* between; it never stays waiting for the answer of a waiter that timed out.
QueuePutReturns ==
    \A p \in Producers :
        (ppc[p] # "idle") ~> (ppc[p] = "idle" /\ pres[p] = "nil" /\ qLock # p)

\* a producer waits for the answer of a waiter whose timer has just fired
QueuePutReturnsWitness ==
    \E p \in Producers, c \in Consumers :
        /\ ppc[p] = "wait"
        /\ pcur[p] = csema[c]
        /\ cpc[c] = "timedout"
        /\ response[csema[c]] = 1

\* a step in which consumer c returns from a parked Poll
PollReturns(c) == cpc[c] # "idle" /\ cpc'[c] = "idle"

\* a Poll call of consumer c that finds the queue live and non-empty
PollDirect(c) ==
    /\ nPolls' = nPolls + 1
    /\ cpath'[c] = "direct"
    /\ ~qDisposed
    /\ qItems # <<>>

\* C13: a timed Poll that parked on the empty queue always returns; it is woken
\* only by a Put or a Dispose that signalled it, and when none did it returns
\* Timeout with no items and its waiter off the waiter list. The waiter list
\* never holds the waiter of a Poll that has returned, so a Put that follows
\* with no Poll in progress keeps its items in the buffer, and the next Poll of
\* the consumer that timed out returns the first of them (up to its number).
QueueTimedPoll ==
    /\ \A c \in Consumers :
           (cpc[c] = "parked" /\ ctimed[c]) ~> (cpc[c] = "idle" /\ cres[c].err # "none")
    /\ [][\A c \in Consumers :
              /\ (cpc[c] = "parked" /\ cpc'[c] = "woken") => response[csema[c]] >= 1
              /\ (PollReturns(c) /\ cpc[c] = "reclaimed") =>
                     /\ cres'[c] = [items |-> <<>>, err |-> "Timeout"]
                     /\ csema[c] \notin Range(qWaiters')
                     /\ qItems' = qItems
              /\ (PollDirect(c) /\ cres[c].err = "Timeout") =>
                     /\ cres'[c].err = "nil"
                     /\ cres'[c].items # <<>>
                     /\ Len(cres'[c].items) <= MaxGetNum
                     /\ cres'[c].items \o qItems' = qItems]_vars
    /\ [](\A i \in 1..Len(qWaiters) :
              \E c \in Consumers : cpc[c] # "idle" /\ csema[c] = qWaiters[i])
    /\ [][\A p \in Producers :
              ((\A c \in Consumers : cpc[c] = "idle") /\ ppc[p] = "loop" /\ ppc'[p] # "loop")
                  => (qItems' = qItems /\ ppc'[p] = "idle" /\ pres'[p] = "nil")]_vars

\* a timed Poll has returned Timeout after reclaiming its slot, and the first
\* Put after it has appended its items and is about to look at the waiter list
QueueTimedPollWitness ==
    \E p \in Producers, c \in Consumers :
        /\ cpc[c] = "idle" /\ cres[c].err = "Timeout" /\ cpath[c] = "reclaim"
        /\ ppc[p] = "loop"
        /\ Len(putLog) = Len(qItems) /\ qItems # <<>>
        /\ \A d \in Consumers : cpc[d] = "idle"

\* consumer a parked before consumer b did: semas are numbered as they are made
ParkedBefore(a, b) == cpc[a] = "parked" /\ csema[b] # 0 /\ csema[a] < csema[b]

\* C14: the waiter list is kept in arrival order, a Put signals the oldest
\* waiter on it, and no consumer is handed items by a Put while a consumer
\* that parked before it is still parked with its timer not fired.
QueueWaitersInOrder ==
    /\ [](\A i, j \in 1..Len(qWaiters) : i < j => qWaiters[i] < qWaiters[j])
    /\ [][\A p \in Producers :
              (ppc[p] = "loop" /\ ppc'[p] = "wait") =>
                  /\ pcur'[p] = qWaiters[1]
                  /\ \A a \in Consumers : cpc[a] = "parked" => csema[a] >= pcur'[p]]_vars
    /\ [][\A a, b \in Consumers :
              (cpc[b] = "woken" /\ cpc'[b] = "idle" /\ cres'[b].items # <<>>)
                  => ~ParkedBefore(a, b)]_vars

\* two consumers are parked and a Put holding two items has signalled the one
\* that parked first, the other still being on the waiter list
QueueWaitersWitness ==
    \E p \in Producers, a, b \in Consumers :
        /\ ParkedBefore(a, b) /\ cpc[b] = "parked"
        /\ ppc[p] = "wait" /\ pcur[p] = csema[a]
        /\ qWaiters = <<csema[b]>>
        /\ Len(qItems) = 2

DisposedResult == [items |-> <<>>, err |-> "Disposed"]

QueueExecDisposes ==
    (exec.calls >= 1 /\ exec.pc = "idle") => (Disposed /\ qItems = <<>>)

\* the items a worker holds an index of and has not yet handed to fn
ExecHeld == {exec.had[exec.idx[w] + 1] : w \in {v \in Workers : exec.idx[v] >= 0}}

\* C21: ExecuteInParallel hands every item the queue held at the call to fn
\* exactly once, whatever the number of workers: while the workers run no two
\* hold the same index, fn has received no item twice and none that a worker
\* still holds, and every item is received, held or still in its slot; when
\* the workers are done fn has received each item once and nothing else.
QueueExecOnce ==
    /\ exec.pc = "work" =>
          /\ \A v, w \in Workers :
                (v # w /\ exec.idx[v] >= 0) => exec.idx[v] # exec.idx[w]
          /\ NoDup(exec.fn)
          /\ Range(exec.fn) \cap ExecHeld = {}
          /\ \A i \in 1..Len(exec.had) :
                \/ exec.had[i] \in Range(exec.fn) /\ qItems[i] = 0
                \/ exec.had[i] \notin Range(exec.fn) /\ qItems[i] = exec.had[i]
    /\ (exec.pc = "unlocked" \/ (exec.pc = "idle" /\ exec.calls >= 1)) =>
          /\ Len(exec.fn) = Len(exec.had)
          /\ Range(exec.fn) = Range(exec.had)
          /\ NoDup(exec.fn)

\* two workers have shared the items and fn received them out of queue order
QueueExecOnceWitness ==
    /\ exec.pc = "unlocked"
    /\ exec.n >= 2
    /\ Len(exec.had) >= 2
    /\ exec.fn # exec.had
    /\ Range(exec.fn) = Range(exec.had)

\* ------------------------------------------------------------------------
\* PriorityQueue properties
\* ------------------------------------------------------------------------
\* s with x put before the first item greater than x
RECURSIVE SortedInsert(_, _)
SortedInsert(s, x) ==
    IF s = <<>> THEN <<x>>
    ELSE IF x <= Head(s) THEN <<x>> \o s
    ELSE <<Head(s)>> \o SortedInsert(Tail(s), x)

\* the items of s in non-decreasing order
RECURSIVE Sorted(_)
Sorted(s) == IF s = <<>> THEN <<>> ELSE SortedInsert(Sorted(Tail(s)), Head(s))

\* the step in which getter c returns items from Get(n), n >= 1
PqGets(c) ==
    /\ pqProc'[c].pc = "idle"
    /\ pqProc'[c].err = "nil"
    /\ pqProc'[c].num >= 1
    /\ pqProc'[c] # pqProc[c]

\* C22: whatever was put, a Get(n) that returns items returns the min(n, Len)
\* smallest items of the queue in non-decreasing order and leaves the others in
\* the queue; so Get(1) returns a minimal item and successive Get(1) calls with
\* no Put in between return items in non-decreasing order.
PriorityOrder ==
    [][\A c \in PqGetters :
         PqGets(c) =>
           \E n \in {Min(pqProc'[c].num, Len(pqItems))} :
             /\ pqProc'[c].items = SubSeq(Sorted(pqItems), 1, n)
             /\ Sorted(pqItems') = SubSeq(Sorted(pqItems), n + 1, Len(pqItems))]_vars

\* a Get(2) has taken the two smallest of four items with three priorities,
\* leaving the larger two
PriorityOrderWitness ==
    /\ \E c \in PqGetters : pqProc[c].items = <<1, 2>> /\ pqProc[c].num = 2
    /\ pqItems = <<3, 3>>
    /\ ~pqDisposed

\* Dispose has been called and has returned
PqDisposeReturned == pqCalls.dispose >= 1 /\ pqProc[PqAdmin].pc = "idle"

\* C23: a Dispose that has taken the locks returns (it does not block); once it
\* has returned, Disposed() is true for good and the queue holds no item and no
\* waiter; every Get parked when Dispose runs returns the Disposed error; and
\* every Put of at least one item and every Get(n), n >= 1, called after the
\* return comes back at once with the Disposed error and nothing else.
PqDisposal ==
    /\ (pqProc[PqAdmin].pc = "signal") ~> PqDisposeReturned
    /\ [](PqDisposeReturned => (PqDisposed /\ pqItems = <<>> /\ pqWaiters = <<>>))
    /\ \A c \in PqGetters :
          (pqProc[c].pc = "parked" /\ pqProc[PqAdmin].pc = "signal")
             ~> (pqProc[c].pc = "idle" /\ pqProc[c].err = "Disposed"
                                       /\ pqProc[c].items = <<>>)
    /\ [][PqDisposeReturned =>
            /\ \A p \in PqProducers :
                  pqCalls'.put # pqCalls.put =>
                     pqProc'[p] = [PqIdleProc EXCEPT !.err = "Disposed"]
            /\ \A c \in PqGetters :
                  (pqProc'[c].call # pqProc[c].call /\ pqProc'[c].num >= 1) =>
                     /\ pqProc'[c].pc = "idle"
                     /\ pqProc'[c].err = "Disposed"
                     /\ pqProc'[c].items = <<>>]_vars

\* both getters had parked and came back with the Disposed error (their
\* response counters, raised by Dispose, stay at one), and a Put and a Get
\* called after Dispose returned were refused
PqDisposalWitness ==
    /\ PqDisposeReturned
    /\ pqResponse = <<1, 1>>
    /\ \A c \in PqGetters : pqProc[c].err = "Disposed"
    /\ \E c \in PqGetters : pqProc[c].call = 3
    /\ \A p \in PqProducers : pqProc[p].err = "Disposed"

\* C24: a queue constructed with allowDuplicates = false never holds two items
\* that compare equal (a Put of an item already queued does not add it), so
\* Len counts distinct items and no Get returns an item twice.
PqNoDuplicates ==
    ~pqAllowDuplicates =>
       /\ \A i, j \in 1..Len(pqItems) :
             i # j => priorityCompare(pqItems[i], pqItems[j]) # 0
       /\ PqLen = Cardinality(Range(pqItems))
       /\ \A c \in PqGetters : NoDup(pqProc[c].items)

\* ------------------------------------------------------------------------
\* tree/avl: claims
\* ------------------------------------------------------------------------
LastSnap == avlSnaps[Len(avlSnaps)]

\* C1: every snapshot ever returned still answers Len and Get of every key
\* as it did when it was returned, whatever calls were made since.
AvlPersistence ==
    \A i \in 1..Len(avlSnaps) :
        /\ avlSnaps[i].number = avlSnaps[i].len
        /\ View(avlHeap, avlSnaps[i]) = avlSnaps[i].seen

\* C8: the snapshot an Insert or Delete has just returned is a binary search
\* tree: its in-order traversal is strictly ascending.
AvlOrdering ==
    (Len(avlSnaps) >= 2 /\ ~avlPanic) => IsBST(avlHeap, LastSnap)

\* C9: in the snapshot an Insert or Delete has just returned, every node's
\* stored balance is rightHeight - leftHeight and lies in {-1, 0, 1}.
AvlBalance ==
    (Len(avlSnaps) >= 2 /\ ~avlPanic) => IsBalanced(avlHeap, LastSnap)

\* the keys Get finds in an Immutable
KeysOf(h, im) == {k \in AvlKeys : get(h, im, Probe(k)).found}

\* the step is the call op(ks...) on the i-th snapshot, returning a new snapshot
IsCall(op, i, ks) ==
    /\ ks # <<>>
    /\ Len(avlSnaps') = Len(avlSnaps) + 1
    /\ LastSnap'.op = op /\ LastSnap'.from = i /\ LastSnap'.arg = ks

\* what the parallel result slices of a call must hold, the inputs taken in
\* order: cur maps a key to (entry, found) as Get answers before the input
RECURSIVE ExpectOut(_, _, _)
ExpectOut(cur, entries, isInsert) ==
    IF entries = <<>> THEN <<>>
    ELSE LET e == Head(entries)
             after == IF isInsert THEN [entry |-> e, found |-> TRUE]
                      ELSE [entry |-> NoEntry, found |-> FALSE]
         IN <<cur[e.k]>> \o ExpectOut([cur EXCEPT ![e.k] = after], Tail(entries), isInsert)

\* the keys found in a view
Found(v) == {k \in AvlKeys : v[k].found}

\* the result r of a call with the given entries meets the contract: the call
\* returns, the result's keys are as wanted, and its result slices say, input
\* by input, what Get answered before that input (before is the receiver's view)
MeetsContract(r, before, entries, isInsert, wanted) ==
    /\ r.ok
    /\ KeysOf(r.h, r.im) = wanted
    /\ Len(r.out) = Len(entries)
    /\ r.out = ExpectOut(before, entries, isInsert)

\* C15: Insert(k1..kn) on any returned snapshot returns a snapshot whose keys
\* are the snapshot's keys and k1..kn, and for every input, in order, whether an
\* equal key was present (in the snapshot or from an earlier input) and the
\* entry it replaced.
AvlInsertContract ==
    \A i \in 1..Len(avlSnaps) :
        \E before \in {View(avlHeap, avlSnaps[i])} :
            \A ks \in KeySeqs(MaxPair) \ {<<>>} :
                \E entries \in {Tagged(ks, Len(avlSnaps), 1)} :
                    \E r \in {Insert(avlHeap, avlSnaps[i], entries)} :
                        MeetsContract(r, before, entries, TRUE, Found(before) \cup Range(ks))

\* C16: Delete(k1..kn) on any returned snapshot returns a snapshot whose keys
\* are the snapshot's keys without k1..kn, and for every input, in order,
\* whether the key was present at that point and the entry removed; a call whose
\* keys are all absent does not fail, reports false and returns the same
\* contents.
AvlDeleteContract ==
    \A i \in 1..Len(avlSnaps) :
        \E before \in {View(avlHeap, avlSnaps[i])} :
            \A ks \in KeySeqs(MaxPair) \ {<<>>} :
                \E entries \in {Tagged(ks, Len(avlSnaps), 1)} :
                    \E r \in {Delete(avlHeap, avlSnaps[i], entries)} :
                        /\ MeetsContract(r, before, entries, FALSE, Found(before) \ Range(ks))
                        /\ (Range(ks) \cap Found(before) = {}) =>
                               /\ View(r.h, r.im) = before
                               /\ r.im.number = avlSnaps[i].number

\* C17: every snapshot returned by New, Insert or Delete reported, when it was
\* returned, a Len equal to the number of keys its Get found.
AvlLenCounts ==
    \A i \in 1..Len(avlSnaps) :
        avlSnaps[i].len = Cardinality({k \in AvlKeys : avlSnaps[i].seen[k].found})

\* snapshot i as Get and Len answer on it now
Contents(h, im) == [keys |-> KeysOf(h, im), len |-> im.number]

\* s.Insert(k) followed by Delete(k) on the result, for the Immutable im
RoundTrip(h, im, n, k) ==
    Let(Insert(h, im, Tagged(<<k>>, n, 1)),
        LAMBDA r1 : IF ~r1.ok THEN r1 ELSE Delete(r1.h, r1.im, <<Probe(k)>>))

\* C18: for every returned snapshot s and every key k that Get does not find
\* in s, s.Insert(k) followed by Delete(k) on the result yields a snapshot with
\* the key set and the Len of s; and whenever a Delete(k) is called on the
\* snapshot the preceding call Insert(k) returned from such an s, it returns the
\* key set and the Len of s.
AvlRoundTrip ==
    /\ [](\A i \in 1..Len(avlSnaps) :
              \A k \in AvlKeys \ KeysOf(avlHeap, avlSnaps[i]) :
                  \E r \in {RoundTrip(avlHeap, avlSnaps[i], Len(avlSnaps), k)} :
                      /\ r.ok
                      /\ Contents(r.h, r.im) = Contents(avlHeap, avlSnaps[i]))
    /\ [][\A k \in AvlKeys :
              LET j == Len(avlSnaps)
                  i == avlSnaps[j].from
              IN (/\ IsCall("Delete", j, <<k>>)
                  /\ avlSnaps[j].op = "Insert" /\ avlSnaps[j].arg = <<k>>
                  /\ k \notin KeysOf(avlHeap, avlSnaps[i]))
                 => Contents(avlHeap', LastSnap') = Contents(avlHeap, avlSnaps[i])]_vars

\* ------------------------------------------------------------------------
\* slice/skip: claims
\* ------------------------------------------------------------------------
\* C4: after any calls of Insert, Delete, InsertAtPosition and SplitAt, with
\* any levels drawn, every node of every list (the head included) stores at
\* every level where it has a forward pointer the level-0 distance to that
\* forward node.
SkipWidths ==
    \A l \in 1..Len(skLists) : WidthsRight(skNodes, skLists[l])

Called(op) == \E j \in 1..Len(skLog) : skLog[j].op = op

\* some node of the list spans at least two elements at a level above 0
HasWideSpan(N, sl) ==
    \E n \in Range(ChainOf(N, sl)) : \E i \in 2..Len(N[n].forward) :
        N[n].forward[i] # Nil /\ N[n].widths[i] >= 2

\* C4 witness: a list was split, a node was then inserted by position, and
\* a list of three elements has a span of two or more above level 0
SkipWidthsWitness ==
    /\ Len(skLists) >= 2
    /\ skLog[Len(skLog)].op = "InsertAtPosition"
    /\ \E l \in 1..Len(skLists) :
           skLists[l].num >= 3 /\ HasWideSpan(skNodes, skLists[l])

\* C10: after any calls of Insert and Delete, for every entry in the list,
\* GetWithPosition of its key returns that entry, its rank and true, and
\* ByPosition of that rank returns the same entry and true.
SkipRank ==
    \A l \in 1..Len(skLists) :
        LET ch == ChainOf(skNodes, skLists[l])
        IN \A j \in 2..Len(ch) :
               /\ GetWithPosition(skNodes, skLists[l], Probe(skNodes[ch[j]].entry.k))
                      = [entry |-> skNodes[ch[j]].entry, pos |-> j - 2, found |-> TRUE]
               /\ ByPosition(skNodes, skLists[l], j - 2)
                      = [entry |-> skNodes[ch[j]].entry, found |-> TRUE]

\* C10 witness: after a Delete and a later Insert the list holds three
\* entries on two or more levels, and the last has rank 2
SkipRankWitness ==
    /\ Called("Delete")
    /\ skLog[Len(skLog)].op = "Insert"
    /\ skLists[1].num = 3
    /\ skLists[1].level >= 2
    /\ HasWideSpan(skNodes, skLists[1])
    /\ GetWithPosition(skNodes, skLists[1], Probe(MaxSkipKey)).pos = 2

\* the step is SplitAt(index) on list l, and it cut the list
IsSplit(l, index) ==
    /\ skLog' = Append(skLog, [op |-> "SplitAt", list |-> l, arg |-> <<index>>])
    /\ index + 1 < skLists[l].num

\* C11: SplitAt(index) with index < n - 1 on a sorted list of n entries
\* leaves in the list its first index + 1 entries and returns a right list
\* holding the other n - index - 1 in order; the lengths add up to n and
\* Get, GetWithPosition and ByPosition answer correctly on both.
SkipSplitPartition ==
    [][\A l \in 1..Len(skLists), index \in 0..(MaxSkipInit + MaxSkipOps) :
           IsSplit(l, index) =>
               LET es == EntriesOf(skNodes, skLists[l])
                   left == skLists'[l]
                   right == skLists'[Len(skLists')]
               IN /\ Len(skLists') = Len(skLists) + 1
                  /\ Ascending([j \in 1..Len(es) |-> es[j].k])
                  /\ EntriesOf(skNodes', left) = SubSeq(es, 1, index + 1)
                  /\ EntriesOf(skNodes', right) = SubSeq(es, index + 2, Len(es))
                  /\ left.num + right.num = Len(es)
                  /\ AnswersAs(skNodes', left, SubSeq(es, 1, index + 1))
                  /\ AnswersAs(skNodes', right, SubSeq(es, index + 2, Len(es)))]_vars

\* C11 witness: a list of three entries on two levels was just cut after
\* its first entry
SkipSplitWitness ==
    /\ skLog[Len(skLog)] = [op |-> "SplitAt", list |-> 1, arg |-> <<0>>]
    /\ Len(skLists) = 2
    /\ skLists[1].num = 1
    /\ skLists[2].num = 2
    /\ skLists[2].level >= 2

\* the keys of the list's entries, in level-0 order
KeysAlong(N, sl) == Let(EntriesOf(N, sl), LAMBDA es : [j \in 1..Len(es) |-> es[j].k])

\* C25: after any calls of Insert and Delete, with any levels drawn, the
\* entries along the level-0 chain of every list are in strictly ascending
\* order, so no two compare equal; no call fails.
SkipSorted ==
    /\ ~skPanic
    /\ \A l \in 1..Len(skLists) : Ascending(KeysAlong(skNodes, skLists[l]))

\* C25 witness: the list holds every key after a Delete and an Insert that
\* put a key between two others, on two levels
SkipSortedWitness ==
    /\ Called("Delete")
    /\ skLog[Len(skLog)].op = "Insert"
    /\ skLog[Len(skLog)].arg[1] = <<2>>
    /\ KeysAlong(skNodes, skLists[1]) = [j \in 1..MaxSkipKey |-> j]
    /\ skLists[1].level >= 2

\* the entries of a sorted list after e replaced the entry of its key or
\* was put at its place
Placed(es, e) ==
    SelectSeq(es, LAMBDA x : x.k < e.k) \o <<e>> \o SelectSeq(es, LAMBDA x : x.k > e.k)

\* the entry of es comparing equal to e, if any
PriorOf(es, e) ==
    IF \E j \in 1..Len(es) : es[j].k = e.k
    THEN [entry |-> es[CHOOSE j \in 1..Len(es) : es[j].k = e.k], found |-> TRUE]
    ELSE [entry |-> NoEntry, found |-> FALSE]

\* C26: on every list reached by calls of Insert and Delete, Insert of any
\* key with any level drawn returns the prior entry and true if the key is
\* present, replacing that entry where it is and keeping Len and every
\* position; else it returns (zero, false), Len grows by one and Get finds
\* the new entry, which stands at its rank.
SkipInsertContract ==
    \A l \in 1..Len(skLists), k \in SkipKeys, level \in generateLevel(MaxLevel) :
        \E es \in {EntriesOf(skNodes, skLists[l])}, e \in {SkTagged(<<k>>)[1]} :
            \E r \in {slInsert(skNodes, skLists[l], e, level)} :
                /\ r.ok
                /\ [entry |-> r.entry, found |-> r.found] = PriorOf(es, e)
                /\ r.sl.num = skLists[l].num + (IF r.found THEN 0 ELSE 1)
                /\ EntriesOf(r.N, r.sl) = Placed(es, e)
                /\ AnswersAs(r.N, r.sl, Placed(es, e))

\* C26 witness: the last call, an Insert of a key the first Insert had put,
\* replaced that entry in a list of three, and an Insert of the absent key
\* would now add it
SkipInsertWitness ==
    /\ Len(skLog) = 3
    /\ skLog[1].arg[1] = <<1, 2, 3>>
    /\ skLog[2].op = "Delete" /\ skLog[2].arg[1] = <<2>>
    /\ skLog[3].op = "Insert" /\ skLog[3].arg[1] = <<3>>
    /\ EntriesOf(skNodes, skLists[1]) = <<[k |-> 1, t |-> TagBase + 1],
                                          [k |-> 3, t |-> 3 * TagBase + 1]>>
    /\ skLists[1].num = 2
    /\ skLists[1].level >= 2

\* C27: on every list reached by calls of Insert and Delete, Delete of a key
\* that is present returns its entry and true, Len drops by one, the entry is
\* gone (Get reports not found) and the others keep their order; Delete of an
\* absent key returns (zero, false) and leaves nodes, entries, positions and
\* Len as they were.
SkipDeleteContract ==
    \A l \in 1..Len(skLists), k \in SkipKeys :
        \E es \in {EntriesOf(skNodes, skLists[l])} :
            \E r \in {slDelete(skNodes, skLists[l], Probe(k))},
               rest \in {SelectSeq(es, LAMBDA x : x.k # k)} :
                /\ r.ok
                /\ [entry |-> r.entry, found |-> r.found] = PriorOf(es, Probe(k))
                /\ r.sl.num = skLists[l].num - (IF r.found THEN 1 ELSE 0)
                /\ EntriesOf(r.N, r.sl) = rest
                /\ AnswersAs(r.N, r.sl, rest)
                /\ ~slGet(r.N, r.sl, Probe(k)).found
                /\ ~r.found => r.N = skNodes /\ rest = es

\* C27 witness: the last call deleted the middle entry of a list of three
\* that used two levels, and deleting that key again would find nothing
SkipDeleteWitness ==
    /\ skLog[1].arg[1] = <<1, 2, 3>>
    /\ skLog[Len(skLog)].op = "Delete" /\ skLog[Len(skLog)].arg[1] = <<2>>
    /\ KeysAlong(skNodes, skLists[1]) = <<1, 3>>
    /\ skLists[1].level >= 2
    /\ ~slDelete(skNodes, skLists[1], Probe(2)).found

\* positions past the end that are asked for: Len, Len + 1, and the two
\* largest uint64 values (-1 and -2 as residues)
PastEnd(sl) == {sl.num, sl.num + 1, -1, -2}

\* C28: after any calls of Insert and Delete the entries are in ascending
\* order and ByPosition(i) returns the (i+1)-th of them and true for every
\* i < Len, and (zero, false) for i >= Len; so after a Delete the entries
\* behind the deleted one are found one position lower.
SkipByPosition ==
    \A l \in 1..Len(skLists) :
        \E es \in {EntriesOf(skNodes, skLists[l])} :
            /\ Len(es) = skLists[l].num
            /\ Ascending(KeysAlong(skNodes, skLists[l]))
            /\ \A i \in 0..(Len(es) - 1) :
                   ByPosition(skNodes, skLists[l], i) = [entry |-> es[i + 1], found |-> TRUE]
            /\ \A i \in PastEnd(skLists[l]) :
                   ByPosition(skNodes, skLists[l], i) = [entry |-> NoEntry, found |-> FALSE]

\* C28 witness: the first of three entries was deleted, and the entry that
\* was at position 1 is now at position 0 of a list on two levels
SkipByPositionWitness ==
    /\ skLog[1].arg[1] = <<1, 2, 3>>
    /\ skLog[Len(skLog)].op = "Delete" /\ skLog[Len(skLog)].arg[1] = <<1>>
    /\ ByPosition(skNodes, skLists[1], 0) = [entry |-> [k |-> 2, t |-> TagBase + 2],
                                             found |-> TRUE]
    /\ ~ByPosition(skNodes, skLists[1], 2).found
    /\ skLists[1].level >= 2

\* C29: after any calls of Insert and Delete, GetWithPosition of a key
\* returns the entry comparing equal to it with its 0-based rank and true,
\* and (zero, 0, false) when no entry compares equal to it, whether or not
\* larger entries exist.
SkipGetWithPosition ==
    \A l \in 1..Len(skLists), k \in SkipKeys :
        \E es \in {EntriesOf(skNodes, skLists[l])} :
            GetWithPosition(skNodes, skLists[l], Probe(k)) =
                IF \E j \in 1..Len(es) : es[j].k = k
                THEN Let(CHOOSE j \in 1..Len(es) : es[j].k = k,
                         LAMBDA j : [entry |-> es[j], pos |-> j - 1, found |-> TRUE])
                ELSE [entry |-> NoEntry, pos |-> 0, found |-> FALSE]

\* the step is InsertAtPosition(position, k) on list l, with level drawn
IsInsertAt(l, position, k, level) ==
    skLog' = Append(skLog, [op |-> "InsertAtPosition", list |-> l,
                            arg |-> <<position, k, level>>])

\* C30: on lists reached by calls of Insert, Delete, InsertAtPosition and
\* SplitAt, sorted or not and with or without equal entries, no call fails
\* and InsertAtPosition(pos, v) with any level drawn raises Len by one and
\* puts v at position min(pos, Len): ByPosition finds the entries before it
\* where they were, v there, and the entries from that position on one
\* higher; the other lists keep their entries.
SkipInsertAtContract ==
    [][/\ ~skPanic'
       /\ \A l \in 1..Len(skLists), position \in 0..(MaxSkipInit + MaxSkipOps + 1),
             k \in SkipKeys, level \in generateLevel(MaxLevel) :
               IsInsertAt(l, position, k, level) =>
                  \E es \in {EntriesOf(skNodes, skLists[l])}, e \in {SkTagged(<<k>>)[1]} :
                    \E at \in {Min(position, Len(es))} :
                      /\ skLists'[l].num = skLists[l].num + 1
                      /\ skLists'[l].num = Len(es) + 1
                      /\ EntriesOf(skNodes', skLists'[l])
                            = SubSeq(es, 1, at) \o <<e>> \o SubSeq(es, at + 1, Len(es))
                      /\ ByPosition(skNodes', skLists'[l], at) = [entry |-> e, found |-> TRUE]
                      /\ \A j \in 0..(at - 1) :
                            ByPosition(skNodes', skLists'[l], j)
                               = [entry |-> es[j + 1], found |-> TRUE]
                      /\ \A j \in at..(Len(es) - 1) :
                            ByPosition(skNodes', skLists'[l], j + 1)
                               = [entry |-> es[j + 1], found |-> TRUE]
                      /\ ~ByPosition(skNodes', skLists'[l], Len(es) + 1).found
                      /\ \A m \in 1..Len(skLists) :
                            m # l => EntriesOf(skNodes', skLists'[m])
                                       = EntriesOf(skNodes, skLists[m])]_vars

\* C30 witness: after an InsertAtPosition that left the list unsorted, the
\* last call, InsertAtPosition with a position past the end, appended a value
\* the list already held
SkipInsertAtWitness ==
    /\ Len(skLog) = 3
    /\ skLog[2].op = "InsertAtPosition"
    /\ skLog[2].arg[1] = 0 /\ skLog[2].arg[2] = MaxSkipKey
    /\ skLog[Len(skLog)].op = "InsertAtPosition"
    /\ skLog[Len(skLog)].arg[1] = skLists[1].num
    /\ skLog[Len(skLog)].list = 1
    /\ \E ks \in {KeysAlong(skNodes, skLists[1])} :
          /\ ks[Len(ks)] = skLog[Len(skLog)].arg[2]
          /\ ~NoDup(ks)
          /\ \E j \in 1..(Len(ks) - 1) : ks[j] > ks[j + 1]

\* the step is ReplaceAtPosition(position, k) on list l
IsReplaceAt(l, position, k) ==
    skLog' = Append(skLog, [op |-> "ReplaceAtPosition", list |-> l, arg |-> <<position, k>>])

\* C31: ReplaceAtPosition(pos, v) with pos < Len writes v into the entry of
\* the node at position pos and nothing else: Len, the list's fields, every
\* other node's entry and every forward pointer and width are as before;
\* with pos >= Len no node and no list changes. No call fails.
SkipReplaceFrame ==
    [][/\ ~skPanic'
       /\ \A l \in 1..Len(skLists), position \in -1..(MaxSkipInit + MaxSkipOps),
             k \in SkipKeys :
               IsReplaceAt(l, position, k) =>
                  \E ch \in {ChainOf(skNodes, skLists[l])} :
                    /\ skLists' = skLists
                    /\ IF 0 <= position /\ position < skLists[l].num
                       THEN skNodes' = [skNodes EXCEPT ![ch[position + 2]].entry =
                                                          SkTagged(<<k>>)[1]]
                       ELSE skNodes' = skNodes]_vars

\* C31 witness: the last call replaced the middle entry of a list of three
\* on two levels by a larger key, and a replace past the end came before
SkipReplaceWitness ==
    /\ Len(skLog) = 3
    /\ skLog[1].arg[1] = <<1, 2, 3>>
    /\ skLog[2].op = "ReplaceAtPosition" /\ skLog[2].arg[1] = 3
    /\ skLog[3].op = "ReplaceAtPosition" /\ skLog[3].arg = <<1, 3>>
    /\ KeysAlong(skNodes, skLists[1]) = <<1, 3, 3>>
    /\ skLists[1].level >= 2

\* index >= num - 1 as uint64 values: a negative residue stands for a value
\* of 2^64 + index, above every length
AtOrPastLast(index, num) == index < 0 \/ index + 1 >= num

\* C32: a SplitAt(index) with index >= Len - 1 returns the receiver and nil:
\* no list is added and no node and no list changes.
SkipSplitPastEnd ==
    [][\A l \in 1..Len(skLists), index \in -1..(MaxSkipInit + MaxSkipOps) :
          (/\ skLog' = Append(skLog, [op |-> "SplitAt", list |-> l, arg |-> <<index>>])
           /\ AtOrPastLast(index, skLists[l].num))
             => skNodes' = skNodes /\ skLists' = skLists]_vars

\* C33: Iter(key) yields the entries of the list that compare greater than
\* or equal to key, in ascending order and each once; once Next has returned
\* false it has yielded them all and returns false on every later call.
SkipIterYields ==
    skIter.live =>
        Let(SelectSeq(EntriesOf(skNodes, skLists[skIter.list]),
                      LAMBDA e : e.k >= skIter.key),
            LAMBDA expected :
                /\ Len(skIter.out) <= Len(expected)
                /\ skIter.out = SubSeq(expected, 1, Len(skIter.out))
                /\ Ascending([j \in 1..Len(skIter.out) |-> skIter.out[j].k])
                /\ \A i, j \in 1..Len(skIter.rets) : i < j /\ skIter.rets[j] => skIter.rets[i]
                /\ Exhausted(skIter.rets) > 0 => skIter.out = expected)

SkipIterWitness ==
    /\ skIter.live
    /\ Len(skIter.out) = 2
    /\ Exhausted(skIter.rets) = MaxIterIdle
    /\ skLists[skIter.list].num = 3
    /\ Len(skLog) > 1

\* TakeUntil(checker) took the longest prefix of the buffer the checker accepts
TookPrefix(checker) ==
    \E n \in 0..Len(qItems) :
        /\ \A i \in 1..n : checker[qItems[i]]
        /\ n < Len(qItems) => ~checker[qItems[n + 1]]
        /\ tookLog' = tookLog \o [i \in 1..n |-> qItems[i]]
        /\ qItems' = [i \in 1..(Len(qItems) - n) |-> qItems[n + i]]
        /\ ares'.err = "nil"

\* C34: a TakeUntil step on a queue that is not disposed returns the longest
\* prefix of the buffer whose items all satisfy the checker (nothing on an
\* empty buffer) and leaves the other items in their order; the call can
\* return whenever the lock is free, whatever the buffer holds; the step parks
\* nobody, does not dispose the queue and leaves the waiter list, the ready
\* channels, the response counters and every parked consumer as they were.
QueueTakeUntil ==
    /\ [](qLock = NoLock => \A checker \in Checkers : ENABLED TakeUntil(checker))
    /\ [][\A checker \in Checkers :
           TakeUntil(checker) =>
               /\ ~qDisposed => TookPrefix(checker)
               /\ qDisposed' = qDisposed
               /\ qLock' = NoLock
               /\ UNCHANGED <<qWaiters, ready, response, cpc, csema, cres, ppc>>]_vars

QueueTakeUntilWitness ==
    /\ ares.op = "TakeUntil"
    /\ tookLog = <<1>>
    /\ qItems = <<2>>
    /\ ~qDisposed

\* C35: a Peek step returns the Disposed error on a disposed queue, the
\* EmptyQueue error on an empty one and otherwise the item at the head of the
\* buffer, which is the oldest item in it; it changes neither the buffer nor
\* anything else of the queue, and it can return whenever the lock is free.
QueuePeek ==
    /\ [](qLock = NoLock => ENABLED Peek)
    /\ [][Peek =>
              /\ ares' = IF qDisposed THEN AdminResult("Peek", 0, "Disposed")
                         ELSE IF Len(qItems) = 0 THEN AdminResult("Peek", 0, "EmptyQueue")
                         ELSE AdminResult("Peek", qItems[1], "nil")
              /\ ~qDisposed => \A i \in 1..Len(qItems) : ares'.item <= qItems[i]
              /\ UNCHANGED <<qItems, qWaiters, qLock, qDisposed, ready, response, cpc, ppc,
                             putLog, gotLog, tookLog>>
              /\ Len(qItems') = Len(qItems)]_vars

QueuePeekWitness ==
    /\ ares = AdminResult("Peek", 1, "nil")
    /\ qItems = <<1, 2>>
    /\ qLock = NoLock

\* C36: no call of Insert or Delete writes a field (balance, child pointer
\* or entry) of a node reachable from a snapshot returned before the call.
AvlPathCopying ==
    [][\A i \in 1..Len(avlSnaps) :
           \A n \in Nodes(avlHeap, avlSnaps[i].root, HeightFuel) :
               avlHeap'[n] = avlHeap[n]]_vars

\* consumer c has received a producer's ready signal and is about to take
\* items from the buffer without the lock
Draining(c) == cpc[c] = "woken" /\ ~qDisposed

\* C37: a consumer takes items without the lock only while the producer that
\* signalled it holds the lock and waits for its answer, and only one
\* consumer at a time; while it does, no Put, Poll, TakeUntil, Peek or
\* Dispose can enter its critical section; every change of the buffer is made
\* either by that consumer or by a caller that found the lock free.
QueueBufferExclusion ==
    /\ [](\A c \in Consumers :
              Draining(c) =>
                  /\ \E p \in Producers : /\ qLock = p
                                          /\ ppc[p] = "wait"
                                          /\ pcur[p] = csema[c]
                                          /\ response[csema[c]] > 0
                                          /\ ~ENABLED PutWait(p)
                  /\ \A d \in Consumers \ {c} : ~Draining(d)
                  /\ ~ENABLED Peek
                  /\ ~ENABLED Dispose
                  /\ \A t \in 1..MaxItems : ~ENABLED TakeUntil(UpTo(t))
                  /\ \A p \in Producers, k \in 1..MaxPutLen : ~ENABLED PutBegin(p, k)
                  /\ \A d \in Consumers, n \in 1..MaxGetNum, t \in BOOLEAN :
                         ~ENABLED PollBegin(d, n, t))
    /\ [][qItems' # qItems =>
              \/ qLock = NoLock /\ \A c \in Consumers : ~Draining(c)
              \/ \E c \in Consumers : Draining(c) /\ cpc'[c] = "idle" /\ qLock' = qLock]_vars

QueueBufferExclusionWitness ==
    \E c \in Consumers :
        /\ Draining(c)
        /\ Len(qItems) = 2
        /\ \E d \in Consumers \ {c} : cpc[d] = "parked"

\* the consumer that parked with sema s and has not returned yet, if any
Owners(s) == {c \in Consumers : csema[c] = s}

\* C38: no response counter is ever negative; while a producer waits for the
\* answer to a ready signal it delivered, the waiter's counter is 1 as long as
\* the consumer has not returned and 0 once it has; a counter is only ever
\* decremented by one, from 1 to 0, by the consumer that owns the sema, in the
\* step in which it returns from Poll, so each delivered signal is answered once.
QueueHandshake ==
    /\ [](\A s \in 1..Len(response) :
              /\ response[s] >= 0
              /\ \A p \in Producers :
                     (ppc[p] = "wait" /\ pcur[p] = s) =>
                         IF Owners(s) = {} THEN response[s] = 0 ELSE response[s] = 1)
    /\ [][\A s \in 1..Len(response) :
              response'[s] < response[s] =>
                  /\ response[s] = 1
                  /\ response'[s] = 0
                  /\ \E c \in Owners(s) : /\ cpc[c] \in {"woken", "timedout"}
                                          /\ cpc'[c] = "idle"
                                          /\ ready[s] = IF cpc[c] = "woken" THEN 0 ELSE 1]_vars

\* a producer has its signal answered by a consumer that timed out, after an
\* earlier hand-off was answered by a consumer that took items
QueueHandshakeWitness ==
    \E p \in Producers, c, d \in Consumers :
        /\ ppc[p] = "wait"
        /\ Owners(pcur[p]) = {}
        /\ response[pcur[p]] = 0
        /\ cpath[c] = "declined"
        /\ cpath[d] = "ready"

\* the highest level at which the head of the list has a forward pointer,
\* counted from 1; 0 when it has none
TopLevel(N, sl) ==
    Let({i \in 1..MaxLevel : N[sl.head].forward[i] # Nil},
        LAMBDA used : IF used = {} THEN 0 ELSE CHOOSE i \in used : \A j \in used : j <= i)

\* the number of levels of the tallest node of the list
TallestNode(N, sl) ==
    Let({Len(N[n].forward) : n \in Range(Chain(N, sl.head, Len(N)))},
        LAMBDA hs : IF hs = {} THEN 0 ELSE CHOOSE i \in hs : \A j \in hs : j <= i)

\* C39: after every Insert, Delete and SplitAt the level field of every list
\* equals the highest level at which its head has a forward pointer, which
\* is the number of levels of its tallest node.
SkipLevel ==
    \A l \in 1..Len(skLists) :
        /\ TopLevel(skNodes, skLists[l]) = TallestNode(skNodes, skLists[l])
        /\ skLists[l].level = TopLevel(skNodes, skLists[l])

\* C39, amended: the level field equals the highest level at which the head
\* has a forward pointer, the number of levels of the tallest node, as long
\* as the list holds an entry; in an empty list the head has no forward
\* pointer and the level is 0 (never raised) or 1 (never lowered below 1).
SkipLevelFloor ==
    \A l \in 1..Len(skLists) :
        /\ TopLevel(skNodes, skLists[l]) = TallestNode(skNodes, skLists[l])
        /\ skLists[l].num > 0 => skLists[l].level = TopLevel(skNodes, skLists[l])
        /\ skLists[l].num = 0 =>
               skLists[l].level \in {0, 1} /\ TopLevel(skNodes, skLists[l]) = 0

\* a Delete has lowered the level of a list that still holds an entry, after
\* a split
SkipLevelWitness ==
    /\ Len(skLog) >= 3
    /\ skLog[Len(skLog)].op = "Delete"
    /\ skLog[Len(skLog) - 1].op = "SplitAt"
    /\ \E l \in 1..Len(skLists) :
           /\ skLists[l].num > 0
           /\ skLists[l].level = 1
           /\ skLog[Len(skLog)].list = l
           /\ \E n \in 1..Len(skNodes) : Len(skNodes[n].forward) = 2 /\ skNodes[n].hasEntry

\* C40: after any calls of Insert, Delete and SplitAt, every node of every
\* list, the head included, stores at every level the width 0 exactly when
\* it has no forward pointer at that level, and at least 1 when it has one.
SkipWidthEncoding ==
    \A l \in 1..Len(skLists) :
        \A n \in Range(ChainOf(skNodes, skLists[l])) :
            \A i \in 1..Len(skNodes[n].forward) :
                IF skNodes[n].forward[i] = Nil THEN skNodes[n].widths[i] = 0
                ELSE skNodes[n].widths[i] >= 1

====
